---- MODULE Spec2Model ----
(***************************************************************************)
(* q_service: dependency graph (src/src/graph/mod.rs), dependency          *)
(* registration (src/src/deps.rs, src/src/service_data.rs) and the service *)
(* lifecycle state machine (src/src/service_data.rs, src/src/tasks.rs).    *)
(* The Service<T, D, E> state machine of src/src/service.rs is modelled    *)
(* on its own.                                                             *)
(***************************************************************************)
EXTENDS Integers, Sequences, FiniteSets, TLC

VARIABLES
    graph,      \* DependencyGraph resource: [nodes, adj, edges]
    sorted,     \* result of the last topsort_graph call on graph, or NoResult
    cache,      \* GraphDataCache: NodeId -> GraphData record (kind "Absent": no entry)
    lastReg,    \* the last Service::register call: [node, deps, res, panic]
    nregs,      \* number of Service::register calls so far
    panicked,   \* some call has panicked
    hooks,      \* what each service's hooks return: [on_init, on_up, on_deinit]
    pending,    \* the commands submitted for each service and not yet watched
    pc,         \* the system each service runs next in the current tick
    hookLog,    \* the hooks run in the current tick: << service, hook >>
    applied,    \* the command applied to each service in the current tick
    startStatus, \* the status of each service when the current tick started
    notes,      \* the ServiceUpdated events sent in the current tick
    ticks,      \* number of ticks completed
    submitted,  \* the commands submitted for each service since the record was dropped
    assets,     \* AssetServer: the load state of each asset and of its dependencies
    serviceIds,        \* SERVICE_IDX, SERVICE_MAP, their mutexes and the callers of NodeId::service
    lastEdit,          \* the last call of add_node, add_edge or remove_node: [op, a, b, changed]
    serviceRes         \* the Service<T, D, E> resource of service.rs, or NoService

\* ----------------------------------------------------------------------
\* Bounds
\* ----------------------------------------------------------------------
MaxNodes == 3
MaxEdges == 3
MaxRegs == 3
MaxDeps == 2
MaxTicks == 2
MaxPending == 2
MaxCallers == 2
MaxCalls == 2
MaxLinks == 2
MaxCmds == 3

NodeIds == 1..MaxNodes

\* ----------------------------------------------------------------------
\* Sequence helpers
\* ----------------------------------------------------------------------
Range(s) == { s[i] : i \in 1..Len(s) }

Reverse(s) == [ i \in 1..Len(s) |-> s[Len(s) + 1 - i] ]

Contains(s, x) == \E i \in 1..Len(s) : s[i] = x

\* Vec::position / IndexMap::get_index_of: first index holding x, 0 if none
IndexOf(s, x) ==
    IF Contains(s, x) THEN CHOOSE i \in 1..Len(s) : s[i] = x /\ \A j \in 1..(i - 1) : s[j] # x
    ELSE 0

\* Vec::swap_remove / IndexMap::swap_remove: the last element takes the hole
SwapRemove(s, i) ==
    IF i = Len(s) THEN SubSeq(s, 1, Len(s) - 1)
    ELSE [ j \in 1..(Len(s) - 1) |-> IF j = i THEN s[Len(s)] ELSE s[j] ]

Min2(a, b) == IF a < b THEN a ELSE b

\* let value = ...; the value is passed on to what follows
Bind(value, Then(_)) == Then(value)

\* ----------------------------------------------------------------------
\* DependencyGraph
\* ----------------------------------------------------------------------
Outgoing == "Outgoing"
Incoming == "Incoming"

opposite(dir) == IF dir = Outgoing THEN Incoming ELSE Outgoing

\* nodes: key order of the IndexMap; adj: the adjacency Vec of each key
\* (empty for keys that are not in the map); edges: the HashSet of pairs
\* topsort: the cached ordering written by add_and_sort
EmptyGraph ==
    [ nodes |-> << >>, adj |-> [ n \in NodeIds |-> << >> ], edges |-> {},
      topsort |-> << >> ]

node_count(g) == Len(g.nodes)

contains_node(g, n) == Contains(g.nodes, n)

add_node(g, n) ==
    IF contains_node(g, n) THEN g ELSE [ g EXCEPT !.nodes = Append(@, n) ]

\* add_edge that pushes the adjacency entries whether or not the edge is new
add_edge_unchecked(g, a, b) ==
    LET g1 == [ add_node(g, a) EXCEPT !.edges = @ \cup { <<a, b>> },
                                      !.adj[a] = Append(@, <<b, Outgoing>>) ]
    IN  IF a # b
        THEN [ add_node(g1, b) EXCEPT !.adj[b] = Append(@, <<a, Incoming>>) ]
        ELSE g1

add_edge(g, a, b) ==
    IF <<a, b>> \in g.edges THEN g
    ELSE LET g1 == [ add_node(g, a) EXCEPT !.edges = @ \cup { <<a, b>> },
                                           !.adj[a] = Append(@, <<b, Outgoing>>) ]
         IN  IF a # b
             THEN [ add_node(g1, b) EXCEPT !.adj[b] = Append(@, <<a, Incoming>>) ]
             ELSE g1

\* remove_single_edge that leaves the neighbour's list as it is
remove_single_edge_kept(g, a, b, dir) == g

remove_single_edge(g, a, b, dir) ==
    IF ~contains_node(g, a) THEN g
    ELSE LET index == IndexOf(g.adj[a], <<b, dir>>)
         IN  IF index = 0 THEN g
             ELSE [ g EXCEPT !.adj[a] = SwapRemove(@, index) ]

RECURSIVE RemoveLinks(_, _, _, _)
RemoveLinks(g, n, links, i) ==
    IF i > Len(links) THEN g
    ELSE LET succ == links[i][1]
             dir == links[i][2]
             edge == IF dir = Outgoing THEN <<n, succ>> ELSE <<succ, n>>
             g1 == remove_single_edge(g, succ, n, opposite(dir))
         IN  RemoveLinks([ g1 EXCEPT !.edges = @ \ { edge } ], n, links, i + 1)

remove_node(g, n) ==
    IF ~contains_node(g, n) THEN g
    ELSE LET links == g.adj[n]
             g1 == [ g EXCEPT !.nodes = SwapRemove(@, IndexOf(@, n)),
                              !.adj[n] = << >> ]
         IN  RemoveLinks(g1, n, links, 1)

\* no graph operation called yet
NoEdit == [ op |-> "none", a |-> 0, b |-> 0, changed |-> FALSE ]

\* outgoing neighbours of a, in adjacency order
neighbors(g, a) ==
    LET adj == IF contains_node(g, a) THEN g.adj[a] ELSE << >>
        out == SelectSeq(adj, LAMBDA e : e[2] = Outgoing)
    IN  [ i \in 1..Len(out) |-> out[i][1] ]

all_edges(g) == g.edges

\* ----------------------------------------------------------------------
\* Strongly connected components (graph/tarjan.rs, described in spec 4.2:
\* Tarjan's algorithm, iterative, components yielded in reverse
\* topological order).  Traversal starts from the nodes in key order and
\* follows neighbors() in adjacency order.  A component lists its members
\* in the order they are finished, its DFS root last.
\* ----------------------------------------------------------------------
TarjanInit ==
    [ idx |-> [ n \in NodeIds |-> 0 ], low |-> [ n \in NodeIds |-> 0 ],
      counter |-> 1, stack |-> << >>, done |-> << >>, out |-> << >> ]

RECURSIVE TarjanVisit(_, _, _)
RECURSIVE TarjanNeighbors(_, _, _, _, _)
TarjanVisit(g, v, st) ==
    LET st0 == [ st EXCEPT !.idx[v] = st.counter, !.low[v] = st.counter,
                           !.counter = @ + 1, !.stack = Append(@, v) ]
        st1 == TarjanNeighbors(g, v, neighbors(g, v), 1, st0)
    IN  IF st1.low[v] = st1.idx[v]
        THEN LET k == IndexOf(st1.stack, v)
                 members == Range(SubSeq(st1.stack, k, Len(st1.stack)))
                 scc == Append(SelectSeq(st1.done, LAMBDA w : w \in members), v)
             IN  [ st1 EXCEPT !.stack = SubSeq(@, 1, k - 1),
                              !.done = SelectSeq(@, LAMBDA w : w \notin members),
                              !.out = Append(@, scc) ]
        ELSE [ st1 EXCEPT !.done = Append(@, v) ]

TarjanNeighbors(g, v, nbrs, i, st) ==
    IF i > Len(nbrs) THEN st
    ELSE LET w == nbrs[i]
         IN  IF st.idx[w] = 0
             THEN LET s2 == TarjanVisit(g, w, st)
                  IN  TarjanNeighbors(g, v, nbrs, i + 1,
                          [ s2 EXCEPT !.low[v] = Min2(@, s2.low[w]) ])
             ELSE IF Contains(st.stack, w)
             THEN TarjanNeighbors(g, v, nbrs, i + 1,
                      [ st EXCEPT !.low[v] = Min2(@, st.idx[w]) ])
             ELSE TarjanNeighbors(g, v, nbrs, i + 1, st)

RECURSIVE TarjanRoots(_, _, _)
TarjanRoots(g, i, st) ==
    IF i > Len(g.nodes) THEN st
    ELSE IF st.idx[g.nodes[i]] = 0
         THEN TarjanRoots(g, i + 1, TarjanVisit(g, g.nodes[i], st))
         ELSE TarjanRoots(g, i + 1, st)

\* the components, in the order the iterator yields them
iter_sccs(g) == TarjanRoots(g, 1, TarjanInit).out

RECURSIVE Flatten(_)
Flatten(ss) == IF ss = << >> THEN << >> ELSE Head(ss) \o Flatten(Tail(ss))

\* ----------------------------------------------------------------------
\* simple_cycles_in_component (Johnson's algorithm)
\* ----------------------------------------------------------------------
RECURSIVE AddNodes(_, _, _)
AddNodes(g, ns, i) ==
    IF i > Len(ns) THEN g ELSE AddNodes(add_node(g, ns[i]), ns, i + 1)

\* for successor in graph.neighbors(node): add the edge when both ends are
\* in the component
RECURSIVE AddInnerEdges(_, _, _, _)
AddInnerEdges(sub, node, succs, j) ==
    IF j > Len(succs) THEN sub
    ELSE AddInnerEdges(
             IF contains_node(sub, succs[j]) THEN add_edge(sub, node, succs[j]) ELSE sub,
             node, succs, j + 1)

RECURSIVE ComponentEdges(_, _, _, _)
ComponentEdges(g, sub, scc, i) ==
    IF i > Len(scc) THEN sub
    ELSE ComponentEdges(g, AddInnerEdges(sub, scc[i], neighbors(g, scc[i]), 1), scc, i + 1)

ComponentSubgraph(g, scc) ==
    ComponentEdges(g, AddNodes(EmptyGraph, scc, 1), scc, 1)

\* while let Some(n) = unblock_stack.pop(): work is the set of nodes on the
\* unblock stack; st.blocked and st.unblock_together are updated
RECURSIVE Unblock(_, _)
Unblock(st, work) ==
    IF work = {} THEN st
    ELSE LET n == CHOOSE x \in work : TRUE
         IN  IF n \in st.blocked
             THEN Unblock([ st EXCEPT !.blocked = @ \ { n },
                                     !.unblock_together[n] = {} ],
                          (work \ { n }) \cup st.unblock_together[n])
             ELSE Unblock(st, work \ { n })

RECURSIVE MarkSuccessors(_, _, _, _)
MarkSuccessors(st, node, succs, j) ==
    IF j > Len(succs) THEN st
    ELSE MarkSuccessors([ st EXCEPT !.unblock_together[succs[j]] = @ \cup { node } ],
                        node, succs, j + 1)

\* The part of one iteration of the DFS loop that follows the `if let`:
\* successors.peekable().peek() pulls one more item out of the iterator
\* held on the DFS stack (the Peekable wraps a &mut to it and is dropped),
\* so a successor that is still left is consumed here.
CycleDfsExhausted(sub, st) ==
    LET top == st.stack[Len(st.stack)]
        node == top[1]
        succs == neighbors(sub, node)
    IN  IF top[2] <= Len(succs)
        THEN [ st EXCEPT !.stack[Len(st.stack)] = << node, top[2] + 1 >> ]
        ELSE LET st1 == IF node \in st.maybe_in_more_cycles
                        THEN Unblock(st, { node })
                        ELSE MarkSuccessors(st, node, succs, 1)
             IN  [ st1 EXCEPT !.path = SubSeq(@, 1, Len(@) - 1),
                              !.stack = SubSeq(@, 1, Len(@) - 1) ]

\* the DFS loop closing a cycle on any node of the path, not on the root only
RECURSIVE CycleDfs_closes_anywhere(_, _, _)
CycleDfs_closes_anywhere(sub, root, st) ==
    IF st.stack = << >> THEN st
    ELSE LET top == st.stack[Len(st.stack)]
             node == top[1]
             succs == neighbors(sub, node)
         IN  IF top[2] <= Len(succs)
             THEN LET next == succs[top[2]]
                      adv == [ st EXCEPT !.stack[Len(st.stack)] = << node, top[2] + 1 >> ]
                  IN  IF next \in Range(adv.path)
                      THEN CycleDfs_closes_anywhere(sub, root, CycleDfsExhausted(sub,
                               [ adv EXCEPT !.maybe_in_more_cycles = @ \cup Range(adv.path),
                                            !.cycles = Append(@, adv.path) ]))
                      ELSE IF next \notin st.blocked
                      THEN CycleDfs_closes_anywhere(sub, root,
                               [ adv EXCEPT !.maybe_in_more_cycles = @ \ { next },
                                            !.path = Append(@, next),
                                            !.blocked = @ \cup { next },
                                            !.stack = Append(@, << next, 1 >>) ])
                      ELSE CycleDfs_closes_anywhere(sub, root, CycleDfsExhausted(sub, adv))
             ELSE CycleDfs_closes_anywhere(sub, root, CycleDfsExhausted(sub, st))

\* while !stack.is_empty() { ... }
RECURSIVE CycleDfs(_, _, _)
CycleDfs(sub, root, st) ==
    IF st.stack = << >> THEN st
    ELSE LET top == st.stack[Len(st.stack)]
             node == top[1]
             succs == neighbors(sub, node)
         IN  IF top[2] <= Len(succs)
             THEN LET next == succs[top[2]]
                      adv == [ st EXCEPT !.stack[Len(st.stack)] = << node, top[2] + 1 >> ]
                  IN  IF next = root
                      THEN CycleDfs(sub, root, CycleDfsExhausted(sub,
                               [ adv EXCEPT !.maybe_in_more_cycles = @ \cup Range(adv.path),
                                            !.cycles = Append(@, adv.path) ]))
                      ELSE IF next \notin st.blocked
                      THEN CycleDfs(sub, root,
                               [ adv EXCEPT !.maybe_in_more_cycles = @ \ { next },
                                            !.path = Append(@, next),
                                            !.blocked = @ \cup { next },
                                            !.stack = Append(@, << next, 1 >>) ])
                      ELSE CycleDfs(sub, root, CycleDfsExhausted(sub, adv))
             ELSE CycleDfs(sub, root, CycleDfsExhausted(sub, st))

\* while let Some(scc) = sccs.pop() { ... }
RECURSIVE CyclesLoop(_, _, _)
CyclesLoop(g, sccs, cycles) ==
    IF sccs = << >> THEN cycles
    ELSE LET scc == sccs[Len(sccs)]
             rest == SubSeq(sccs, 1, Len(sccs) - 1)
             sub == ComponentSubgraph(g, scc)
             root == scc[Len(scc)]
             st == CycleDfs(sub, root,
                       [ path |-> << root >>, blocked |-> { root },
                         unblock_together |-> [ n \in NodeIds |-> {} ],
                         maybe_in_more_cycles |-> {},
                         stack |-> << << root, 1 >> >>,
                         cycles |-> cycles ])
             smaller == SelectSeq(iter_sccs(remove_node(sub, root)), LAMBDA c : Len(c) > 1)
         IN  CyclesLoop(g, rest \o smaller, st.cycles)

simple_cycles_in_component(g, scc) == CyclesLoop(g, << scc >>, << >>)

\* ----------------------------------------------------------------------
\* Service<T, D, E> (service.rs, lifecycle/commands.rs)
\* ----------------------------------------------------------------------
\* ServiceState<E>: Uninitialized, Initializing, Enabled, Disabled, Failed(e)
NoKind == [ tag |-> "None", msg |-> "" ]

ServiceState(tag) == [ tag |-> tag, error |-> NoKind ]

ServiceState_Failed(error) == [ tag |-> "Failed", error |-> error ]

\* ServiceErrorKind<E>
ServiceErrorKind(tag, msg) == [ tag |-> tag, msg |-> msg ]

\* no Service<T, D, E> resource in the world
NoService ==
    [ present |-> FALSE, data |-> 0, state |-> ServiceState("Uninitialized"),
      initialized |-> FALSE, ran |-> << >>, changes |-> << >>, history |-> << >> ]

\* Service::from_spec.  ran and changes are the hooks run and the state
\* changes triggered by the command being applied, history the commands
\* applied so far with their results.
Service_from_spec == [ NoService EXCEPT !.present = TRUE ]

Service_run_hook(self, hook) == [ self EXCEPT !.ran = Append(@, hook) ]

\* set_state: stores the state and triggers ServiceStateChange
Service_set_state(self, state) ==
    [ self EXCEPT !.state = state, !.changes = Append(@, << self.state, state >>) ]

\* on_failure that sets Failed also for a warning
Service_on_failure_always_fails(self, error, is_warning) ==
    Service_set_state(Service_run_hook(self, "on_failure"), ServiceState_Failed(error))

\* on_failure: the failure hook runs; the state changes unless is_warning
Service_on_failure(self, error, is_warning) ==
    Bind(Service_run_hook(self, "on_failure"), LAMBDA s1 :
        IF ~is_warning THEN Service_set_state(s1, ServiceState_Failed(error)) ELSE s1)

SvcOk(self) == [ self |-> self, res |-> NoKind ]

SvcErr(self, error) == [ self |-> self, res |-> error ]

\* on_enable of an initialized service; en is what the enable hook returns
Service_enable_hook(self, en) ==
    Bind(Service_run_hook(self, "on_enable"), LAMBDA s1 :
        IF en = "ok" THEN SvcOk(Service_set_state(s1, ServiceState("Enabled")))
        ELSE SvcErr(Service_on_failure(s1, ServiceErrorKind("Own", "on_enable"), FALSE),
                    ServiceErrorKind("Own", "on_enable")))

\* on_disable; dis is what the disable hook returns
Service_on_disable(self, dis) ==
    IF ~self.initialized
    THEN SvcErr(Service_on_failure(self, ServiceErrorKind("Uninitialized", "handle"), TRUE),
                ServiceErrorKind("Uninitialized", "handle"))
    ELSE Bind(Service_run_hook(self, "on_disable"), LAMBDA s1 :
             IF dis = "ok" THEN SvcOk(Service_set_state(s1, ServiceState("Disabled")))
             ELSE SvcErr(Service_on_failure(s1, ServiceErrorKind("Own", "on_disable"), FALSE),
                         ServiceErrorKind("Own", "on_disable")))

\* on_init of a service without dependencies; ini is what the init hook
\* returns: Ok(true), Ok(false) or Err
Service_on_init(self, ini, en, dis) ==
    IF self.initialized
    THEN SvcErr(Service_on_failure(self, ServiceErrorKind("AlreadyInitialized", "handle"), TRUE),
                ServiceErrorKind("AlreadyInitialized", "handle"))
    ELSE Bind(Service_run_hook(Service_set_state(self, ServiceState("Initializing")), "on_init"),
              LAMBDA s1 :
                 IF ini = "err"
                 THEN SvcErr(Service_on_failure(s1, ServiceErrorKind("Own", "on_init"), FALSE),
                             ServiceErrorKind("Own", "on_init"))
                 ELSE IF ini = "true"
                 THEN Service_enable_hook([ s1 EXCEPT !.initialized = TRUE ], en)
                 ELSE Service_on_disable([ s1 EXCEPT !.initialized = TRUE ], dis))

\* on_enable: initializes first when the service is not initialized
Service_on_enable(self, ini, en, dis) ==
    IF ~self.initialized THEN Service_on_init(self, ini, en, dis)
    ELSE Service_enable_hook(self, en)

Service_on_fail_cmd(self, error) == SvcOk(Service_on_failure(self, error, FALSE))

\* on_update; upd is what the update hook returns for the data d
Service_on_update(self, d, upd) ==
    Bind(Service_run_hook(self, "on_update"), LAMBDA s1 :
        IF upd = "ok" THEN SvcOk([ s1 EXCEPT !.data = d ])
        ELSE SvcErr(Service_on_failure(s1, ServiceErrorKind("Own", "on_update"), FALSE),
                    ServiceErrorKind("Own", "on_update")))

\* ----------------------------------------------------------------------
\* topsort_graph
\* ----------------------------------------------------------------------
NoName == ""

DagOk(order) == [ ok |-> TRUE, order |-> order, err |-> "None", name |-> NoName, cycles |-> << >> ]

DagErr(err, name, cycles) ==
    [ ok |-> FALSE, order |-> << >>, err |-> err, name |-> name, cycles |-> cycles ]

\* the message names the nodes of every cycle, in order: it is modelled by
\* the list of cycles it is written from
get_dependency_cycles_error_message(g, cycles) == cycles

RECURSIVE CyclesOfComponents(_, _, _)
CyclesOfComponents(g, sccs, i) ==
    IF i > Len(sccs) THEN << >>
    ELSE simple_cycles_in_component(g, sccs[i]) \o CyclesOfComponents(g, sccs, i + 1)

\* topsort_graph without the final reverse()
topsort_graph_unreversed(g) ==
    IF \E e \in all_edges(g) : e[1] = e[2]
    THEN DagErr("DependencyLoop", NoName, << >>)
    ELSE LET sccs == iter_sccs(g)
             top_sorted_nodes == Flatten(sccs)
             sccs_with_cycles == SelectSeq(sccs, LAMBDA c : Len(c) > 1)
         IN  IF sccs_with_cycles = << >>
             THEN DagOk(top_sorted_nodes)
             ELSE DagErr("DependencyCycle", NoName,
                      get_dependency_cycles_error_message(g,
                          CyclesOfComponents(g, sccs_with_cycles, 1)))

\* topsort_graph without the explicit check for self-edges
topsort_graph_no_self_edge_check(g) ==
    LET sccs == iter_sccs(g)
        top_sorted_nodes == Flatten(sccs)
        sccs_with_cycles == SelectSeq(sccs, LAMBDA c : Len(c) > 1)
    IN  IF sccs_with_cycles = << >>
        THEN DagOk(Reverse(top_sorted_nodes))
        ELSE DagErr("DependencyCycle", NoName,
                 get_dependency_cycles_error_message(g,
                     CyclesOfComponents(g, sccs_with_cycles, 1)))

topsort_graph(g) ==
    IF \E e \in all_edges(g) : e[1] = e[2]
    THEN DagErr("DependencyLoop", NoName, << >>)
    ELSE LET sccs == iter_sccs(g)
             top_sorted_nodes == Flatten(sccs)
             sccs_with_cycles == SelectSeq(sccs, LAMBDA c : Len(c) > 1)
         IN  IF sccs_with_cycles = << >>
             THEN DagOk(Reverse(top_sorted_nodes))
             ELSE DagErr("DependencyCycle", NoName,
                      get_dependency_cycles_error_message(g,
                          CyclesOfComponents(g, sccs_with_cycles, 1)))

\* ----------------------------------------------------------------------
\* subgraph reachable from a node
\* ----------------------------------------------------------------------
RECURSIVE color(_, _, _)
RECURSIVE ColorNeighbors(_, _, _, _, _)
color(g, sub, parent) == ColorNeighbors(g, sub, parent, neighbors(g, parent), 1)

ColorNeighbors(g, sub, parent, nbrs, i) ==
    IF i > Len(nbrs) THEN sub
    ELSE IF contains_node(sub, nbrs[i])
         THEN ColorNeighbors(g, sub, parent, nbrs, i + 1)
         ELSE ColorNeighbors(g,
                  color(g, add_edge(add_node(sub, nbrs[i]), parent, nbrs[i]), nbrs[i]),
                  parent, nbrs, i + 1)

subgraph(g, node) == color(g, add_node(EmptyGraph, node), node)

\* ----------------------------------------------------------------------
\* Registration of dependencies (deps.rs)
\* ----------------------------------------------------------------------
RECURSIVE AddDeps(_, _, _, _)
AddDeps(g, parent, deps, i) ==
    IF i > Len(deps) THEN g
    ELSE AddDeps(add_edge(add_node(g, deps[i]), parent, deps[i]), parent, deps, i + 1)

DepOk(order) == [ ok |-> TRUE, order |-> order, err |-> "None", name |-> NoName, cycles |-> << >> ]

DepErr(err, name, cycles) ==
    [ ok |-> FALSE, order |-> << >>, err |-> err, name |-> name, cycles |-> cycles ]

\* add_and_sort converting every DagError with From, the loop included
add_and_sort_all_into(g, parent, deps) ==
    Bind(AddDeps(add_node(g, parent), parent, deps, 1), LAMBDA g1 :
    Bind(topsort_graph(g1), LAMBDA r :
        IF r.ok
        THEN [ graph |-> [ g1 EXCEPT !.topsort = r.order ], res |-> DepOk(<< >>) ]
        ELSE [ graph |-> g1, res |-> DepErr("DepCycle", r.name, r.cycles) ]))

\* returns the graph as it is left behind and Ok(()) or the DepInitErr
add_and_sort(g, parent, deps) ==
    Bind(AddDeps(add_node(g, parent), parent, deps, 1), LAMBDA g1 :
    Bind(topsort_graph(g1), LAMBDA r :
        IF r.ok
        THEN [ graph |-> [ g1 EXCEPT !.topsort = r.order ], res |-> DepOk(<< >>) ]
        ELSE IF r.err = "DependencyLoop"
        THEN [ graph |-> g1, res |-> DepErr("DepLoop", r.name, << >>) ]
        ELSE [ graph |-> g1, res |-> DepErr("DepCycle", r.name, r.cycles) ]))

\* register_deps sorting the whole graph in place of the sub-graph of the
\* parent
register_deps_whole_graph(g, parent, deps) ==
    Bind(add_and_sort(g, parent, deps), LAMBDA a :
        IF ~a.res.ok THEN a
        ELSE Bind(topsort_graph(a.graph), LAMBDA r :
                 IF r.ok
                 THEN [ graph |-> a.graph, res |-> DepOk(r.order) ]
                 ELSE [ graph |-> a.graph, res |-> DepErr("DepCycle", r.name, r.cycles) ]))

\* `?` on the second topsort converts a DagError with From: DepCycle
register_deps(g, parent, deps) ==
    Bind(add_and_sort(g, parent, deps), LAMBDA a :
        IF ~a.res.ok THEN a
        ELSE Bind(topsort_graph(subgraph(a.graph, parent)), LAMBDA r :
                 IF r.ok
                 THEN [ graph |-> a.graph, res |-> DepOk(r.order) ]
                 ELSE [ graph |-> a.graph, res |-> DepErr("DepCycle", r.name, r.cycles) ]))

\* ----------------------------------------------------------------------
\* Service records (data.rs, service_data.rs)
\* ----------------------------------------------------------------------
NoError == [ tag |-> "None", name |-> "", msg |-> << >> ]

Down(reason) == [ tag |-> "Down", reason |-> reason ]

Uninitialized == [ tag |-> "Uninitialized", error |-> NoError ]

\* ServiceStatus::default()
StatusDefault == Down(Uninitialized)

\* no entry under this key in the GraphDataCache
AbsentData ==
    [ kind |-> "Absent", status |-> StatusDefault, registered |-> FALSE,
      deps |-> << >>, tasks |-> << >>, event_queue |-> << >> ]

\* ServiceData::new
ServiceData_new ==
    [ kind |-> "Service", status |-> StatusDefault, registered |-> FALSE,
      deps |-> << >>, tasks |-> << >>, event_queue |-> << >> ]

\* GraphData::resource: the record of a Resource dependency
ResourceData_new ==
    [ kind |-> "Resource", status |-> StatusDefault, registered |-> FALSE,
      deps |-> << >>, tasks |-> << >>, event_queue |-> << >> ]

\* GraphData::asset: the record of an Asset dependency
AssetData_new ==
    [ kind |-> "Asset", status |-> StatusDefault, registered |-> FALSE,
      deps |-> << >>, tasks |-> << >>, event_queue |-> << >> ]

\* AssetServer::get_load_state and get_recursive_dependency_load_state of
\* an asset nobody has asked for, and of one that load_asset has started
NotLoaded == [ my |-> "NotLoaded", deps |-> "NotLoaded" ]

Loading == [ my |-> "Loading", deps |-> "Loading" ]

\* ServiceScope::add_dep, for each declared dependency in turn:
\* cache.entry(id).or_insert(ServiceData::new)
RECURSIVE add_dep(_, _, _)
add_dep(c, deps, i) ==
    IF i > Len(deps) THEN c
    ELSE add_dep(IF c[deps[i]].kind = "Absent"
                 THEN [ c EXCEPT ![deps[i]] = ServiceData_new ]
                 ELSE c,
                 deps, i + 1)

\* ServiceData::register storing the order back to front
ServiceData_register_reversed(g, c, id, deps) ==
    Bind(add_dep(c, deps, 1), LAMBDA c1 :
    Bind(register_deps(g, id, deps), LAMBDA r :
        IF ~r.res.ok
        THEN [ graph |-> r.graph, cache |-> c1, res |-> r.res, panic |-> "InvalidDeps" ]
        ELSE IF r.res.order = << >> \/ Head(r.res.order) # id
        THEN [ graph |-> r.graph, cache |-> c1, res |-> r.res, panic |-> "AssertEq" ]
        ELSE [ graph |-> r.graph,
               cache |-> [ c1 EXCEPT ![id] = [ ServiceData_new EXCEPT
                                                 !.deps = Reverse(Tail(r.res.order)),
                                                 !.registered = TRUE ] ],
               res |-> r.res, panic |-> "None" ]))

\* Service::register followed by ServiceData::register.  A failed
\* register_deps panics in expect(); so does the assert_eq! on the head of
\* the order.  The graph and the placeholders written before the panic
\* stay as they are.
ServiceData_register(g, c, id, deps) ==
    Bind(add_dep(c, deps, 1), LAMBDA c1 :
    Bind(register_deps(g, id, deps), LAMBDA r :
        IF ~r.res.ok
        THEN [ graph |-> r.graph, cache |-> c1, res |-> r.res, panic |-> "InvalidDeps" ]
        ELSE IF r.res.order = << >> \/ Head(r.res.order) # id
        THEN [ graph |-> r.graph, cache |-> c1, res |-> r.res, panic |-> "AssertEq" ]
        ELSE [ graph |-> r.graph,
               cache |-> [ c1 EXCEPT ![id] = [ ServiceData_new EXCEPT
                                                 !.deps = Tail(r.res.order),
                                                 !.registered = TRUE ] ],
               res |-> r.res, panic |-> "None" ]))

\* ----------------------------------------------------------------------
\* Errors and statuses (data.rs)
\* ----------------------------------------------------------------------
Own(msg) == [ tag |-> "Own", name |-> "", msg |-> msg ]

Dependency(name, msg) == [ tag |-> "Dependency", name |-> name, msg |-> msg ]

\* Display of a ServiceError, as the sequence of its parts
to_string(e) ==
    IF e.tag = "Dependency"
    THEN << "Dependency", e.name, "failed with error:" >> \o e.msg
    ELSE e.msg

NoReason == [ tag |-> "None", error |-> NoError ]

SpunDown == [ tag |-> "SpunDown", error |-> NoError ]

Failed(error) == [ tag |-> "Failed", error |-> error ]

Deinit(reason) == [ tag |-> "Deinit", reason |-> reason ]

Init == [ tag |-> "Init", reason |-> NoReason ]

Up == [ tag |-> "Up", reason |-> NoReason ]

failed(error) == Down(Failed(error))

is_down(s) == s.tag = "Down"

is_initializing(s) == s.tag = "Init"

is_up(s) == s.tag = "Up"

is_failed(s) == s.tag = "Down" /\ s.reason.tag = "Failed"

is_deinitializing(s) == s.tag = "Deinit"

\* name_from_type: every service type has a name of its own
name_from_type(id) == "S" \o ToString(id)

\* format!("{id:?}")
DebugId(id) == "Service(" \o ToString(id) \o ")"

\* ----------------------------------------------------------------------
\* Lifecycle of one service (service_data.rs, deps.rs).  A world w is
\* [cache, log, panic]: the GraphDataCache, the hooks run so far in this
\* tick, and whether the call has panicked.  self is the ServiceData taken
\* out of the cache for the call; every operation returns [w, self].
\* ----------------------------------------------------------------------
\* hooks that succeed synchronously
DefaultHooks == [ on_init |-> "sync", on_up |-> "ok", on_deinit |-> "sync" ]

HookError(id, hook) == Own(<< hook, name_from_type(id), "failed" >>)

\* run_hook / run_hook_with: the hook's system runs
run_hook(w, id, hook) == [ w EXCEPT !.log = Append(@, << id, hook >>) ]

\* set_status that queues no event
set_status_unqueued(self, id, status) == [ self EXCEPT !.status = status ]

set_status(self, id, status) ==
    [ self EXCEPT !.event_queue = Append(@, [ old_status |-> self.status,
                                             new_status |-> status, id |-> id ]),
                  !.status = status ]

\* deps_ok that takes a failed dependency for one that is not ready yet
deps_ok_failed_unseen(self, goal, c) ==
    IF \A i \in 1..Len(self.deps) :
           c[self.deps[i]].kind # "Absent" /\ c[self.deps[i]].status = goal
    THEN [ ok |-> TRUE, panic |-> FALSE, err |-> NoError ]
    ELSE [ ok |-> FALSE, panic |-> FALSE, err |-> NoError ]

\* deps_ok that answers Ok(true) whenever no dependency has failed
deps_ok_unready_unseen(self, goal, c) ==
    IF \E i \in 1..Len(self.deps) :
           /\ c[self.deps[i]].kind # "Absent"
           /\ c[self.deps[i]].status.tag \in { "Deinit", "Down" }
           /\ c[self.deps[i]].status.reason.tag = "Failed"
    THEN [ ok |-> FALSE, panic |-> FALSE,
           err |-> Dependency(name_from_type(self.deps[1]), << "failed" >>) ]
    ELSE [ ok |-> TRUE, panic |-> FALSE, err |-> NoError ]

\* Result<bool, ServiceError> of deps_ok; panic: cache.get(dep).unwrap()
\* on a dependency that has no record
deps_ok(self, goal, c) ==
    LET deps == self.deps
        bad == { i \in 1..Len(deps) :
                   /\ c[deps[i]].kind # "Absent"
                   /\ c[deps[i]].status.tag \in { "Deinit", "Down" }
                   /\ c[deps[i]].status.reason.tag = "Failed" }
        off == { i \in 1..Len(deps) :
                   c[deps[i]].kind = "Absent" \/ c[deps[i]].status # goal }
    IN  IF bad # {}
        THEN LET i == CHOOSE k \in bad : \A j \in bad : k <= j
             IN  [ ok |-> FALSE, panic |-> FALSE,
                   err |-> Dependency(name_from_type(deps[i]),
                                      to_string(c[deps[i]].status.reason.error)) ]
        ELSE IF off = {}
        THEN [ ok |-> TRUE, panic |-> FALSE, err |-> NoError ]
        ELSE LET i == CHOOSE k \in off : \A j \in off : k <= j
             IN  [ ok |-> FALSE, panic |-> c[deps[i]].kind = "Absent", err |-> NoError ]

RECURSIVE initialize(_, _, _, _)
RECURSIVE on_up(_, _, _)
RECURSIVE deinit(_, _, _, _)
RECURSIVE on_failure(_, _, _, _, _)
RECURSIVE cycle_deps(_, _, _, _)
RECURSIVE cycle_service(_, _, _, _)

spin_up(w, self, id) == initialize(w, self, id, FALSE)

\* restart that does not force the pass through Init
restart_unforced(w, self, id) == initialize(w, self, id, FALSE)

restart(w, self, id) == initialize(w, self, id, TRUE)

\* spin_down handing deinit the reason a service starts with
spin_down_uninitialized(w, self, id) == deinit(w, self, id, Uninitialized)

spin_down(w, self, id) == deinit(w, self, id, SpunDown)

fail(w, self, id, error) == on_failure(w, self, id, error, FALSE)

\* on_down that sets the status and leaves the hook out
on_down_no_hook(w, self, id, reason) ==
    [ w |-> w, self |-> set_status(self, id, Down(reason)) ]

on_down(w, self, id, reason) ==
    [ w |-> run_hook(w, id, "on_down"), self |-> set_status(self, id, Down(reason)) ]

\* initialize, after the early return
InitializeBody(w, self, id) ==
    Bind(set_status(self, id, Init), LAMBDA s1 :
    Bind(cycle_deps(w, s1.deps, NoReason, 1), LAMBDA c :
        IF c.err # NoError
        THEN on_failure(c.w, s1, id, c.err, FALSE)
        ELSE Bind(run_hook(c.w, id, "on_init"), LAMBDA w1 :
                 IF hooks[id].on_init = "async"
                 THEN [ w |-> w1, self |-> [ s1 EXCEPT !.tasks = Append(@, "pending") ] ]
                 ELSE IF hooks[id].on_init = "err"
                 THEN on_failure(w1, s1, id, HookError(id, "on_init"), FALSE)
                 ELSE Bind(deps_ok(s1, Up, w1.cache), LAMBDA d :
                          IF d.panic THEN [ w |-> [ w1 EXCEPT !.panic = TRUE ], self |-> s1 ]
                          ELSE IF d.err # NoError THEN fail(w1, s1, id, d.err)
                          ELSE IF d.ok THEN on_up(w1, s1, id)
                          ELSE [ w |-> w1, self |-> s1 ]))))

\* initialize without the early return for a service that is already up
initialize_always(w, self, id, force) == InitializeBody(w, self, id)

initialize(w, self, id, force) ==
    IF is_up(self.status) /\ ~force
    THEN [ w |-> w, self |-> self ]
    ELSE InitializeBody(w, self, id)

on_up(w, self, id) ==
    LET w1 == run_hook(w, id, "on_up")
    IN  IF hooks[id].on_up = "err"
        THEN on_failure(w1, self, id, HookError(id, "on_up"), FALSE)
        ELSE [ w |-> w1, self |-> set_status(self, id, Up) ]

\* deinit, after the early return
DeinitBody(w, self, id, reason) ==
    Bind(set_status(self, id, Deinit(reason)), LAMBDA s1 :
    Bind(cycle_deps(w, s1.deps, reason, 1), LAMBDA c :
        IF c.err # NoError
        THEN on_failure(c.w, s1, id, c.err, TRUE)
        ELSE Bind(run_hook(c.w, id, "on_deinit"), LAMBDA w1 :
                 IF hooks[id].on_deinit = "async"
                 THEN [ w |-> w1, self |-> [ s1 EXCEPT !.tasks = Append(@, "pending") ] ]
                 ELSE IF hooks[id].on_deinit = "err"
                 THEN on_failure(w1, s1, id, HookError(id, "on_deinit"), TRUE)
                 ELSE Bind(deps_ok(s1, Down(reason), w1.cache), LAMBDA d :
                          IF d.panic THEN [ w |-> [ w1 EXCEPT !.panic = TRUE ], self |-> s1 ]
                          ELSE IF d.err # NoError THEN on_failure(w1, s1, id, d.err, TRUE)
                          ELSE IF d.ok THEN on_down(w1, s1, id, reason)
                          ELSE [ w |-> w1, self |-> s1 ]))))

deinit(w, self, id, reason) ==
    LET is_failure == reason.tag = "Failed"
    IN  IF (~is_failure /\ is_down(self.status)) \/ (is_failure /\ is_failed(self.status))
        THEN [ w |-> w, self |-> self ]
        ELSE DeinitBody(w, self, id, reason)

on_failure(w, self, id, error, force) ==
    IF ~force
    THEN deinit(w, self, id, Failed(error))
    ELSE [ w |-> w, self |-> set_status(self, id, failed(error)) ]

\* Ok(()) of cycle_service after the call r that spun the service
CycleOk(r) == [ w |-> r.w, self |-> r.self, err |-> NoError ]

\* cycle_service that does not ask whether the service was registered
cycle_service_unchecked(w, service, id, down_reason) ==
    LET status == service.status
        run == IF down_reason = NoReason
               THEN ~is_up(status) /\ ~is_initializing(status)
               ELSE ~is_down(status) /\ ~is_deinitializing(status)
    IN  IF ~run THEN [ w |-> w, self |-> service, err |-> NoError ]
        ELSE IF down_reason = NoReason THEN CycleOk(spin_up(w, service, id))
        ELSE IF down_reason.tag = "Failed"
        THEN CycleOk(fail(w, service, id, down_reason.error))
        ELSE CycleOk(spin_down(w, service, id))

\* cycle_service: returns [w, self, err]
cycle_service(w, service, id, down_reason) ==
    IF ~service.registered
    THEN [ w |-> w, self |-> service,
           err |-> Dependency(name_from_type(id), << "Service has not been registered." >>) ]
    ELSE LET status == service.status
             run == IF down_reason = NoReason
                    THEN ~is_up(status) /\ ~is_initializing(status)
                    ELSE ~is_down(status) /\ ~is_deinitializing(status)
         IN  IF ~run THEN [ w |-> w, self |-> service, err |-> NoError ]
             ELSE IF down_reason = NoReason THEN CycleOk(spin_up(w, service, id))
             ELSE IF down_reason.tag = "Failed"
             THEN CycleOk(fail(w, service, id, down_reason.error))
             ELSE IF down_reason.tag = "SpunDown" THEN CycleOk(spin_down(w, service, id))
             ELSE [ w |-> [ w EXCEPT !.panic = TRUE ], self |-> service, err |-> NoError ]

\* a cycle that leaves the dependency to its own commands
GraphData_cycle_untouched(w, dep, id, down_reason) ==
    [ w |-> w, self |-> dep, err |-> NoError ]

\* GraphData::cycle: a Resource runs its init or its deinit system; an
\* Asset that goes down loses its container and gets the status
\* Down(reason), an Asset that goes up is left as it is
GraphData_cycle(w, dep, id, down_reason) ==
    IF dep.kind = "Resource"
    THEN [ w |-> run_hook(w, id, IF down_reason = NoReason THEN "init" ELSE "deinit"),
           self |-> dep, err |-> NoError ]
    ELSE IF dep.kind = "Asset"
    THEN [ w |-> w,
           self |-> IF down_reason = NoReason THEN dep
                    ELSE [ dep EXCEPT !.status = Down(down_reason) ],
           err |-> NoError ]
    ELSE cycle_service(w, dep, id, down_reason)

\* cycle_deps from the i-th dependency on: returns [w, err].  The record is
\* taken out of the cache for the step and put back when the step is Ok;
\* `?` returns before the insert when the step is an Err.
\* cycle_deps that leaves every dependency as it is
cycle_deps_skipped(w, deps, down_reason, i) == [ w |-> w, err |-> NoError ]

cycle_deps(w, deps, down_reason, i) ==
    IF i > Len(deps) THEN [ w |-> w, err |-> NoError ]
    ELSE IF w.cache[deps[i]].kind = "Absent"
    THEN [ w |-> w,
           err |-> Dependency(DebugId(deps[i]), << "Dependency not found in cache." >>) ]
    ELSE Bind(GraphData_cycle([ w EXCEPT !.cache[deps[i]] = AbsentData ],
                              w.cache[deps[i]], deps[i], down_reason), LAMBDA r :
             IF r.err # NoError
             THEN [ w |-> r.w, err |-> r.err ]
             ELSE cycle_deps([ r.w EXCEPT !.cache[deps[i]] = r.self ],
                             deps, down_reason, i + 1))

\* the world the scope closure gets: the record is out of the cache
ScopeRemove(w, id) == [ w EXCEPT !.cache[id] = AbsentData ]

\* the record is put back when the scope returns
ScopeInsert(r, id) == [ r.w EXCEPT !.cache[id] = r.self ]

\* ServiceWorldExt::service_scope / service_scope_by_id; scoped is what
\* the closure returns for the world ScopeRemove(w, id) and the record
\* w.cache[id]
service_scope_by_id(w, id, scoped) ==
    IF w.cache[id].kind = "Absent"
    THEN [ w EXCEPT !.panic = TRUE ]
    ELSE ScopeInsert(scoped, id)

\* ----------------------------------------------------------------------
\* The systems of one service, run in this order every tick
\* (service_trait.rs, tasks.rs, deps.rs, service_data.rs)
\* ----------------------------------------------------------------------
\* LifecycleCommand: the requests of the Commands extension (described in
\* spec 4.5; the extension's source is not part of src/)
SpinUpCmd == [ cmd |-> "spin_up", error |-> NoError ]

SpinDownCmd == [ cmd |-> "spin_down", error |-> NoError ]

RestartCmd == [ cmd |-> "restart", error |-> NoError ]

FailCmd(error) == [ cmd |-> "fail", error |-> error ]

NoCommand == [ cmd |-> "none", error |-> NoError ]

\* no command has been applied to the service in this tick
NotApplied == [ command |-> NoCommand, status |-> StatusDefault, among |-> << >> ]

\* spin_up and spin_down with the same number whatever the status is
CommandPriority_no_status(c, status) ==
    IF c.cmd = "fail" THEN 0
    ELSE IF c.cmd = "restart" THEN 1
    ELSE 2

\* spec 4.5: fail = 0, restart = 1, spin_up / spin_down = 2 if the command
\* would change the status the node had at the start of the tick, else 3
CommandPriority(c, status) ==
    IF c.cmd = "fail" THEN 0
    ELSE IF c.cmd = "restart" THEN 1
    ELSE IF c.cmd = "spin_up" THEN (IF is_up(status) THEN 3 ELSE 2)
    ELSE (IF is_down(status) THEN 3 ELSE 2)

\* stable selection of the lowest priority number
SelectCommand(cmds, status) ==
    CHOOSE i \in 1..Len(cmds) :
        \A j \in 1..Len(cmds) :
            \/ CommandPriority(cmds[i], status) < CommandPriority(cmds[j], status)
            \/ CommandPriority(cmds[i], status) = CommandPriority(cmds[j], status) /\ i <= j

ApplyCommand(w, id, c) ==
    IF c.cmd = "fail"
    THEN service_scope_by_id(w, id, fail(ScopeRemove(w, id), w.cache[id], id, c.error))
    ELSE IF c.cmd = "restart"
    THEN service_scope_by_id(w, id, restart(ScopeRemove(w, id), w.cache[id], id))
    ELSE IF c.cmd = "spin_up"
    THEN service_scope_by_id(w, id, spin_up(ScopeRemove(w, id), w.cache[id], id))
    ELSE service_scope_by_id(w, id, spin_down(ScopeRemove(w, id), w.cache[id], id))

\* every pending command applied, in submission order
RECURSIVE ApplyAll(_, _, _)
ApplyAll(w, id, cmds) ==
    IF cmds = << >> THEN w
    ELSE ApplyAll(ApplyCommand(w, id, Head(cmds)), id, Tail(cmds))

watch_service_commands_all(w, id, cmds, status) == ApplyAll(w, id, cmds)

\* watch_service_commands: of the commands pending for the node, the one
\* selected is applied and the others are dropped
watch_service_commands(w, id, cmds, status) ==
    IF cmds = << >> THEN w
    ELSE ApplyCommand(w, id, cmds[SelectCommand(cmds, status)])

\* the queued fail of every task that resolved with an error, applied at
\* the sync point that follows poll_tasks
RECURSIVE FailTasks(_, _, _)
FailTasks(w, id, k) ==
    IF k = 0 THEN w
    ELSE FailTasks(service_scope_by_id(w, id,
                       fail(ScopeRemove(w, id), w.cache[id], id,
                            Own(<< "task", name_from_type(id), "failed" >>))),
                   id, k - 1)

\* poll_tasks: tasks that have not resolved are kept
poll_tasks(w, id) ==
    LET tasks == w.cache[id].tasks
        keep == SelectSeq(tasks, LAMBDA t : t = "pending")
        errs == Len(SelectSeq(tasks, LAMBDA t : t = "err"))
    IN  FailTasks([ w EXCEPT !.cache[id].tasks = keep ], id, errs)

\* update_asset_status: the status an asset's load state stands for
update_asset_status(load, name) ==
    IF load.my = "NotLoaded" /\ load.deps = "NotLoaded" THEN Down(Uninitialized)
    ELSE IF load.my = "Loaded" /\ load.deps = "Loaded" THEN Up
    ELSE IF load.deps = "Failed"
    THEN Down(Failed(Dependency(name, << "asset dependency failed to load" >>)))
    ELSE IF load.my = "Failed" THEN Down(Failed(Own(<< "asset failed to load" >>)))
    ELSE Init

\* update_dep_status that refreshes the assets of a service that is down
update_dep_status_always(w, id, load) ==
    [ w EXCEPT !.cache =
        [ n \in NodeIds |->
            IF Contains(w.cache[id].deps, n) /\ w.cache[n].kind = "Asset"
            THEN [ w.cache[n] EXCEPT
                     !.status = update_asset_status(load[n], name_from_type(n)) ]
            ELSE w.cache[n] ] ]

\* update_dep_status: nothing for a service that is down; otherwise the
\* status of every Asset in the service's list is refreshed from the
\* load states
update_dep_status(w, id, load) ==
    IF is_down(w.cache[id].status) THEN w
    ELSE [ w EXCEPT !.cache =
             [ n \in NodeIds |->
                 IF Contains(w.cache[id].deps, n) /\ w.cache[n].kind = "Asset"
                 THEN [ w.cache[n] EXCEPT
                          !.status = update_asset_status(load[n], name_from_type(n)) ]
                 ELSE w.cache[n] ] ]

\* update_async_state that does not look at the tasks of the service
UpdateAsyncScope_tasks_unseen(w, service, id, goal) ==
    LET d == deps_ok(service, goal, w.cache)
    IN  IF d.panic THEN [ w |-> [ w EXCEPT !.panic = TRUE ], self |-> service ]
        ELSE IF d.err # NoError THEN fail(w, service, id, d.err)
        ELSE IF d.ok THEN [ w |-> w, self |-> set_status(service, id, goal) ]
        ELSE [ w |-> w, self |-> service ]

UpdateAsyncScope(w, service, id, goal) ==
    LET d == deps_ok(service, goal, w.cache)
    IN  IF d.panic THEN [ w |-> [ w EXCEPT !.panic = TRUE ], self |-> service ]
        ELSE IF d.err # NoError THEN fail(w, service, id, d.err)
        ELSE IF d.ok /\ service.tasks = << >>
        THEN [ w |-> w, self |-> set_status(service, id, goal) ]
        ELSE [ w |-> w, self |-> service ]

update_async_state(w, id) ==
    LET status == w.cache[id].status
    IN  IF is_deinitializing(status)
        THEN service_scope_by_id(w, id,
                 UpdateAsyncScope(ScopeRemove(w, id), w.cache[id], id, Down(status.reason)))
        ELSE IF is_initializing(status)
        THEN service_scope_by_id(w, id,
                 UpdateAsyncScope(ScopeRemove(w, id), w.cache[id], id, Up))
        ELSE w

\* ----------------------------------------------------------------------
\* NodeId::service (deps/graph/mod.rs): two statics behind a mutex each
\* ----------------------------------------------------------------------
Callers == 1..MaxCallers

\* handle.to_string() of the services that ask for an identifier
ServiceNames == { "A", "B", "C" }

\* no thread holds the mutex
Unlocked == 0

\* HashMap::get returning None
NoId == 0

\* SERVICE_IDX = 0, SERVICE_MAP empty, both mutexes free, no call running
IdsInit ==
    [ idx |-> 0,
      map |-> [ s \in ServiceNames |-> NoId ],
      mapOwner |-> Unlocked,
      idxOwner |-> Unlocked,
      at |-> [ t \in Callers |-> "idle" ],
      name |-> [ t \in Callers |-> "A" ],
      result |-> [ t \in Callers |-> NoId ],
      calls |-> [ t \in Callers |-> 0 ],
      returned |-> {} ]

\* map.get(&handle.to_string()) that never finds the name
map_get_none(s, name) == NoId

\* map.get(&handle.to_string())
map_get(s, name) == s.map[name]

\* *idx += 1; map.insert(name, *idx).  The index is a usize counting the
\* names seen, far from its width with the names of a program.
map_insert_next(s, name) ==
    [ s EXCEPT !.idx = @ + 1, !.map[name] = s.idx + 1 ]

\* ----------------------------------------------------------------------
\* Specification of the graph operations
\* ----------------------------------------------------------------------
NoResult == [ ok |-> FALSE, order |-> << >>, err |-> "NotRun", name |-> NoName, cycles |-> << >> ]

NoReg == [ node |-> 0, deps |-> << >>, res |-> NoResult, panic |-> "None" ]

vars ==
    << graph, sorted, cache, lastReg, nregs, panicked, hooks, pending, pc, hookLog,
       applied, startStatus, notes, ticks, submitted, assets, serviceIds, lastEdit, serviceRes >>

lifeVars ==
    << hooks, pending, pc, hookLog, applied, startStatus, notes, ticks, submitted,
       assets, serviceIds, lastEdit, serviceRes >>

GraphInit ==
    /\ graph = EmptyGraph
    /\ sorted = NoResult
    /\ cache = [ n \in NodeIds |-> AbsentData ]
    /\ lastReg = NoReg
    /\ nregs = 0
    /\ panicked = FALSE
    /\ hooks = [ n \in NodeIds |-> DefaultHooks ]
    /\ pending = [ n \in NodeIds |-> << >> ]
    /\ pc = [ n \in NodeIds |-> "idle" ]
    /\ hookLog = << >>
    /\ applied = [ n \in NodeIds |-> NotApplied ]
    /\ startStatus = [ n \in NodeIds |-> StatusDefault ]
    /\ notes = [ n \in NodeIds |-> << >> ]
    /\ ticks = 0
    /\ submitted = [ n \in NodeIds |-> << >> ]
    /\ assets = [ n \in NodeIds |-> NotLoaded ]
    /\ serviceIds = IdsInit
    /\ lastEdit = NoEdit
    /\ serviceRes = NoService

AddNode(n) ==
    /\ ~contains_node(graph, n)
    /\ graph' = add_node(graph, n)
    /\ sorted' = NoResult
    /\ UNCHANGED << cache, lastReg, nregs, panicked, lifeVars >>

AddEdge(a, b) ==
    /\ Cardinality(graph.edges) < MaxEdges
    /\ <<a, b>> \notin graph.edges
    /\ graph' = add_edge(graph, a, b)
    /\ sorted' = NoResult
    /\ UNCHANGED << cache, lastReg, nregs, panicked, lifeVars >>

Topsort ==
    /\ sorted = NoResult
    /\ sorted' = topsort_graph(graph)
    /\ UNCHANGED << graph, cache, lastReg, nregs, panicked, lifeVars >>

GraphNext ==
    \/ \E n \in NodeIds : AddNode(n)
    \/ \E a, b \in NodeIds : AddEdge(a, b)
    \/ Topsort

GraphSpec == GraphInit /\ [][GraphNext]_vars

\* ----------------------------------------------------------------------
\* Specification of registration
\* ----------------------------------------------------------------------
\* declared dependency lists: no repeats, at most MaxDeps entries
DepSeqs ==
    { d \in UNION { [ 1..k -> NodeIds ] : k \in 0..MaxDeps } :
        \A i, j \in 1..Len(d) : i # j => d[i] # d[j] }

\* Component ids are handed out in the order the resources are first
\* initialised (init_resource in Service::register, then in add_dep): a
\* node mentioned for the first time gets the next id.
RECURSIVE FirstMention(_, _)
FirstMention(ids, known) ==
    IF ids = << >> THEN TRUE
    ELSE IF Head(ids) <= known THEN FirstMention(Tail(ids), known)
    ELSE Head(ids) = known + 1 /\ FirstMention(Tail(ids), known + 1)

\* One Service::register call.  budget caps the number of edges the
\* DependencyGraph may hold afterwards.
Register(id, deps, budget) ==
    /\ nregs < MaxRegs
    /\ FirstMention(<< id >> \o deps, Len(graph.nodes))
    /\ Bind(ServiceData_register(graph, cache, id, deps), LAMBDA r :
            /\ Cardinality(r.graph.edges) <= budget
            /\ graph' = r.graph
            /\ cache' = r.cache
            /\ lastReg' = [ node |-> id, deps |-> deps, res |-> r.res, panic |-> r.panic ]
            /\ panicked' = (panicked \/ r.panic # "None"))
    /\ nregs' = nregs + 1
    /\ UNCHANGED << sorted, lifeVars >>

RegInit == GraphInit

RegNext == \E id \in NodeIds, deps \in DepSeqs : Register(id, deps, MaxEdges)

RegSpec == RegInit /\ [][RegNext]_vars

\* the same calls with room for every declared dependency
RegWideNext == \E id \in NodeIds, deps \in DepSeqs : Register(id, deps, MaxRegs * MaxDeps)

RegWideSpec == RegInit /\ [][RegWideNext]_vars

\* ----------------------------------------------------------------------
\* Specification of the lifecycle: commands are submitted between ticks;
\* a tick runs the five systems of every registered service, the systems
\* of a service after those of the services it declares as dependencies
\* ----------------------------------------------------------------------
RECURSIVE RegisterAll(_, _, _)
RegisterAll(g, c, regs) ==
    IF regs = << >> THEN [ graph |-> g, cache |-> c ]
    ELSE Bind(ServiceData_register(g, c, regs[1][1], regs[1][2]), LAMBDA r :
             RegisterAll(r.graph, r.cache, Tail(regs)))

\* the Service::register calls of an application, in order: << id, deps >>
Apps ==
    { << << 1, << >> >> >>,
      << << 1, << 2 >> >> >>,
      << << 2, << >> >>, << 1, << 2 >> >> >> }

\* two services that do not depend on each other
TwoServices == << << 1, << >> >>, << 2, << >> >> >>

\* what the hooks of the services return: all succeed synchronously, or
\* one hook of one service returns a task or an error
HookProfiles ==
    { [ n \in NodeIds |-> DefaultHooks ] }
    \cup { [ n \in NodeIds |-> IF n = m THEN [ DefaultHooks EXCEPT !.on_init = k ]
                                        ELSE DefaultHooks ] :
             m \in 1..2, k \in { "async", "err" } }
    \cup { [ n \in NodeIds |-> IF n = m THEN [ DefaultHooks EXCEPT !.on_deinit = k ]
                                        ELSE DefaultHooks ] :
             m \in 1..2, k \in { "async", "err" } }
    \cup { [ n \in NodeIds |-> IF n = m THEN [ DefaultHooks EXCEPT !.on_up = "err" ]
                                        ELSE DefaultHooks ] : m \in 1..2 }

\* an application and what its hooks return
Setups ==
    (Apps \X HookProfiles) \cup { << TwoServices, [ n \in NodeIds |-> DefaultHooks ] >> }

Commands == { SpinUpCmd, SpinDownCmd, RestartCmd, FailCmd(Own(<< "oh no" >>)) }

\* the services whose systems are scheduled
Scheduled == { n \in NodeIds : cache[n].kind = "Service" /\ cache[n].registered }

World == [ cache |-> cache, log |-> hookLog, panic |-> FALSE ]

\* the number of commands waiting for the services of S
RECURSIVE PendingCount(_)
PendingCount(S) ==
    IF S = {} THEN 0
    ELSE LET n == CHOOSE x \in S : TRUE
         IN  Len(pending[n]) + PendingCount(S \ { n })

\* add_resource_with and add_asset in place of add_dep: the record of a
\* declared dependency of that kind
Declared(c, kinds) ==
    [ n \in NodeIds |->
        IF c[n].kind # "Service" \/ c[n].registered THEN c[n]
        ELSE IF kinds[n] = "Resource" THEN ResourceData_new
        ELSE IF kinds[n] = "Asset" THEN AssetData_new
        ELSE c[n] ]

AllServices == [ n \in NodeIds |-> "Service" ]

\* the state after the Service::register calls of one of the set-ups,
\* whose declared dependencies are of the kinds given; add_asset has
\* started the load of each asset
RegisteredAs(setups, kinds) ==
    /\ \E setup \in setups :
          /\ Bind(RegisterAll(EmptyGraph, [ n \in NodeIds |-> AbsentData ], setup[1]),
                  LAMBDA r : graph = r.graph /\ cache = Declared(r.cache, kinds))
          /\ hooks = setup[2]
    /\ assets = [ n \in NodeIds |-> IF cache[n].kind = "Asset" THEN Loading ELSE NotLoaded ]
    /\ serviceIds = IdsInit
    /\ lastEdit = NoEdit
    /\ serviceRes = NoService
    /\ sorted = NoResult
    /\ lastReg = NoReg
    /\ nregs = 0
    /\ panicked = FALSE
    /\ pending = [ n \in NodeIds |-> << >> ]
    /\ pc = [ n \in NodeIds |-> "idle" ]
    /\ hookLog = << >>
    /\ applied = [ n \in NodeIds |-> NotApplied ]
    /\ startStatus = [ n \in NodeIds |-> StatusDefault ]
    /\ notes = [ n \in NodeIds |-> << >> ]
    /\ ticks = 0
    /\ submitted = [ n \in NodeIds |-> << >> ]

Registered(setups) == RegisteredAs(setups, AllServices)

LifeInit == Registered(Setups)

InTick == \E n \in NodeIds : pc[n] # "idle"

\* the world a system leaves behind
Becomes(w) ==
    /\ cache' = w.cache
    /\ hookLog' = w.log
    /\ panicked' = w.panic

\* Commands::spin_service_up and the like: one more command for service n
Submit(n, c) ==
    /\ ~InTick /\ ~panicked
    /\ ticks < MaxTicks
    /\ n \in Scheduled
    /\ PendingCount(NodeIds) < MaxPending
    /\ pending' = [ pending EXCEPT ![n] = Append(@, c) ]
    /\ submitted' = [ submitted EXCEPT ![n] = Append(@, c) ]
    /\ UNCHANGED << graph, sorted, cache, lastReg, nregs, panicked, hooks, pc, hookLog,
                    applied, startStatus, notes, ticks, assets, serviceIds, lastEdit, serviceRes >>

\* the i-th task of service n resolves, while fewer than limit ticks have run
TaskResolvesWithin(n, i, res, limit) ==
    /\ ~InTick /\ ~panicked
    /\ ticks < limit
    /\ cache[n].kind = "Service"
    /\ i \in 1..Len(cache[n].tasks)
    /\ cache[n].tasks[i] = "pending"
    /\ cache' = [ cache EXCEPT ![n].tasks[i] = res ]
    /\ UNCHANGED << graph, sorted, lastReg, nregs, panicked, hooks, pending, pc, hookLog,
                    applied, startStatus, notes, ticks, submitted, assets, serviceIds, lastEdit, serviceRes >>

TaskResolves(n, i, res) == TaskResolvesWithin(n, i, res, MaxTicks)

\* App::update starts, while fewer than limit ticks have run
BeginTickWithin(limit) ==
    /\ ~InTick /\ ~panicked
    /\ ticks < limit
    /\ Scheduled # {}
    /\ pc' = [ n \in NodeIds |-> IF n \in Scheduled THEN "watch_service_commands" ELSE "done" ]
    /\ startStatus' = [ n \in NodeIds |-> cache[n].status ]
    /\ UNCHANGED << graph, sorted, cache, lastReg, nregs, panicked, hooks, pending, hookLog,
                    applied, notes, ticks, submitted, assets, serviceIds, lastEdit, serviceRes >>

\* system_set.after(LifecycleSystems(dep)) for every declared dependency
BeginTick == BeginTickWithin(MaxTicks)

MayStart(n) == \A d \in Range(neighbors(graph, n)) : d = n \/ pc[d] = "done"

WatchServiceCommands(n) ==
    /\ pc[n] = "watch_service_commands" /\ ~panicked
    /\ MayStart(n)
    /\ Becomes(watch_service_commands(World, n, pending[n], startStatus[n]))
    /\ applied' = [ applied EXCEPT ![n] =
                      IF pending[n] = << >> THEN NotApplied
                      ELSE [ command |-> pending[n][SelectCommand(pending[n], startStatus[n])],
                             status |-> cache[n].status,
                             among |-> pending[n] ] ]
    /\ pending' = [ pending EXCEPT ![n] = << >> ]
    /\ pc' = [ pc EXCEPT ![n] = "poll_tasks" ]
    /\ UNCHANGED << graph, sorted, lastReg, nregs, hooks, startStatus, notes, ticks, submitted, assets, serviceIds, lastEdit, serviceRes >>

PollTasks(n) ==
    /\ pc[n] = "poll_tasks" /\ ~panicked
    /\ Becomes(poll_tasks(World, n))
    /\ pc' = [ pc EXCEPT ![n] = "update_dep_status" ]
    /\ UNCHANGED << graph, sorted, lastReg, nregs, hooks, pending, applied, startStatus,
                    notes, ticks, submitted, assets, serviceIds, lastEdit, serviceRes >>

\* update_dep_status refreshes Asset records only: a service whose
\* dependencies are services is left as it is
UpdateDepStatus(n) ==
    /\ pc[n] = "update_dep_status" /\ ~panicked
    /\ Becomes(update_dep_status(World, n, assets))
    /\ pc' = [ pc EXCEPT ![n] = "update_async_state" ]
    /\ UNCHANGED << graph, sorted, lastReg, nregs, hooks, pending, applied, startStatus,
                    notes, ticks, submitted, assets, serviceIds, lastEdit, serviceRes >>

UpdateAsyncState(n) ==
    /\ pc[n] = "update_async_state" /\ ~panicked
    /\ Becomes(update_async_state(World, n))
    /\ pc' = [ pc EXCEPT ![n] = "broadcast_new_state" ]
    /\ UNCHANGED << graph, sorted, lastReg, nregs, hooks, pending, applied, startStatus,
                    notes, ticks, submitted, assets, serviceIds, lastEdit, serviceRes >>

\* broadcast_new_state: the queue is drained into the event stream
BroadcastNewState(n) ==
    /\ pc[n] = "broadcast_new_state" /\ ~panicked
    /\ notes' = [ notes EXCEPT ![n] = @ \o cache[n].event_queue ]
    /\ cache' = [ cache EXCEPT ![n].event_queue = << >> ]
    /\ pc' = [ pc EXCEPT ![n] = "done" ]
    /\ UNCHANGED << graph, sorted, lastReg, nregs, panicked, hooks, pending, hookLog,
                    applied, startStatus, ticks, submitted, assets, serviceIds, lastEdit, serviceRes >>

\* App::update returns; what was recorded about the tick is dropped
EndTick ==
    /\ InTick /\ ~panicked
    /\ \A n \in NodeIds : pc[n] = "done"
    /\ pc' = [ n \in NodeIds |-> "idle" ]
    /\ ticks' = ticks + 1
    /\ startStatus' = [ n \in NodeIds |-> StatusDefault ]
    /\ hookLog' = << >>
    /\ applied' = [ n \in NodeIds |-> NotApplied ]
    /\ notes' = [ n \in NodeIds |-> << >> ]
    /\ submitted' = [ n \in NodeIds |-> << >> ]
    /\ UNCHANGED << graph, sorted, cache, lastReg, nregs, panicked, hooks, pending, assets, serviceIds, lastEdit, serviceRes >>

LifeNext ==
    \/ \E n \in NodeIds, c \in Commands : Submit(n, c)
    \/ \E n \in Scheduled, res \in { "ok", "err" } :
           \E i \in 1..Len(cache[n].tasks) : TaskResolves(n, i, res)
    \/ BeginTick
    \/ \E n \in NodeIds : WatchServiceCommands(n)
    \/ \E n \in NodeIds : PollTasks(n)
    \/ \E n \in NodeIds : UpdateDepStatus(n)
    \/ \E n \in NodeIds : UpdateAsyncState(n)
    \/ \E n \in NodeIds : BroadcastNewState(n)
    \/ EndTick

LifeSpec == LifeInit /\ [][LifeNext]_vars

\* ----------------------------------------------------------------------
\* Specification of a chain of services: service i declares service i + 1
\* as its dependency, the services are registered in any order, and the
\* root gets one command before a tick.  What the ticks did is kept.
\* ----------------------------------------------------------------------
\* one command for service n when no command is waiting
SubmitOne(n, c, limit) ==
    /\ ~InTick /\ ~panicked
    /\ ticks < limit
    /\ n \in Scheduled
    /\ \A m \in NodeIds : pending[m] = << >>
    /\ pending' = [ pending EXCEPT ![n] = << c >> ]
    /\ submitted' = [ submitted EXCEPT ![n] = Append(@, c) ]
    /\ UNCHANGED << graph, sorted, cache, lastReg, nregs, panicked, hooks, pc, hookLog,
                    applied, startStatus, notes, ticks, assets, serviceIds, lastEdit, serviceRes >>

\* App::update returns; the hooks run, the events sent and the commands
\* submitted stay on record
EndTickKeep ==
    /\ InTick /\ ~panicked
    /\ \A n \in NodeIds : pc[n] = "done"
    /\ pc' = [ n \in NodeIds |-> "idle" ]
    /\ ticks' = ticks + 1
    /\ startStatus' = [ n \in NodeIds |-> StatusDefault ]
    /\ applied' = [ n \in NodeIds |-> NotApplied ]
    /\ UNCHANGED << graph, sorted, cache, lastReg, nregs, panicked, hooks, pending,
                    hookLog, notes, submitted, assets, serviceIds, lastEdit, serviceRes >>

\* the systems of the services, as the schedule runs them
TickSystems ==
    \/ \E n \in NodeIds : WatchServiceCommands(n)
    \/ \E n \in NodeIds : PollTasks(n)
    \/ \E n \in NodeIds : UpdateDepStatus(n)
    \/ \E n \in NodeIds : UpdateAsyncState(n)
    \/ \E n \in NodeIds : BroadcastNewState(n)

ChainRoot == 1

ChainLeaf == MaxNodes

\* the Service::register call of service i
ChainReg(i) == << i, IF i < ChainLeaf THEN << i + 1 >> ELSE << >> >>

\* the calls in every order
ChainApps ==
    { [ k \in NodeIds |-> ChainReg(p[k]) ] :
        p \in { q \in [ NodeIds -> NodeIds ] : \A i, j \in NodeIds : i # j => q[i] # q[j] } }

\* every hook succeeds synchronously, or the init hook of the leaf fails
ChainHooks ==
    { [ n \in NodeIds |-> DefaultHooks ],
      [ n \in NodeIds |-> IF n = ChainLeaf THEN [ DefaultHooks EXCEPT !.on_init = "err" ]
                                           ELSE DefaultHooks ] }

ChainInit == Registered(ChainApps \X ChainHooks)

ChainNext ==
    \/ \E c \in { SpinUpCmd, SpinDownCmd } : SubmitOne(ChainRoot, c, MaxTicks)
    \/ BeginTickWithin(MaxTicks)
    \/ TickSystems
    \/ EndTickKeep

ChainSpec == ChainInit /\ [][ChainNext]_vars

\* ----------------------------------------------------------------------
\* Specification of services with a hook that returns a task: the root,
\* alone or with one dependency, gets one command before a tick, and the
\* tasks resolve between ticks
\* ----------------------------------------------------------------------
AsyncRoot == 1

AsyncApps ==
    { << << 1, << >> >> >>,
      << << 2, << >> >>, << 1, << 2 >> >> >>,
      << << 1, << 2 >> >>, << 2, << >> >> >> }

\* the init hook or the deinit hook of one service returns a task
AsyncHooks ==
    { [ n \in NodeIds |-> IF n = m THEN [ DefaultHooks EXCEPT !.on_init = "async" ]
                                   ELSE DefaultHooks ] : m \in 1..2 }
    \cup { [ n \in NodeIds |-> IF n = m THEN [ DefaultHooks EXCEPT !.on_deinit = "async" ]
                                        ELSE DefaultHooks ] : m \in 1..2 }

AsyncInit == Registered(AsyncApps \X AsyncHooks)

AsyncNext ==
    \/ \E c \in { SpinUpCmd, SpinDownCmd } : SubmitOne(AsyncRoot, c, MaxTicks + 1)
    \/ \E n \in Scheduled, res \in { "ok", "err" } :
           \E i \in 1..Len(cache[n].tasks) : TaskResolvesWithin(n, i, res, MaxTicks + 1)
    \/ BeginTickWithin(MaxTicks + 1)
    \/ TickSystems
    \/ EndTickKeep

AsyncSpec == AsyncInit /\ [][AsyncNext]_vars

\* ----------------------------------------------------------------------
\* Specification of ticks that never stop: a service and its dependency
\* get at most MaxTicks commands, one before a tick; after that the ticks
\* go on with no command.  Every tick that can run does, and a task that
\* is pending before tick after tick resolves.
\* ----------------------------------------------------------------------
\* App::update returns; the ticks are counted up to limit
EndTickCapped(limit) ==
    /\ InTick /\ ~panicked
    /\ \A n \in NodeIds : pc[n] = "done"
    /\ pc' = [ n \in NodeIds |-> "idle" ]
    /\ ticks' = IF ticks < limit THEN ticks + 1 ELSE ticks
    /\ startStatus' = [ n \in NodeIds |-> StatusDefault ]
    /\ hookLog' = << >>
    /\ applied' = [ n \in NodeIds |-> NotApplied ]
    /\ notes' = [ n \in NodeIds |-> << >> ]
    /\ submitted' = [ n \in NodeIds |-> << >> ]
    /\ UNCHANGED << graph, sorted, cache, lastReg, nregs, panicked, hooks, pending, assets, serviceIds, lastEdit, serviceRes >>

LiveApps == { << << 2, << >> >>, << 1, << 2 >> >> >> }

\* every hook succeeds synchronously, or the init hook of the dependency
\* returns a task
LiveHooks ==
    { [ n \in NodeIds |-> DefaultHooks ],
      [ n \in NodeIds |-> IF n = 2 THEN [ DefaultHooks EXCEPT !.on_init = "async" ]
                                   ELSE DefaultHooks ] }

LiveInit == Registered(LiveApps \X LiveHooks)

LiveTick ==
    \/ BeginTickWithin(ticks + 1)
    \/ TickSystems
    \/ EndTickCapped(MaxTicks)

LiveResolve ==
    \E n \in Scheduled, res \in { "ok", "err" } :
        \E i \in 1..Len(cache[n].tasks) : TaskResolvesWithin(n, i, res, ticks + 1)

LiveNext ==
    \/ \E n \in NodeIds, c \in Commands : SubmitOne(n, c, MaxTicks)
    \/ LiveResolve
    \/ LiveTick

LiveSpec == LiveInit /\ [][LiveNext]_vars /\ WF_vars(LiveTick) /\ SF_vars(LiveResolve)

\* ----------------------------------------------------------------------
\* Specification of a service with counting hooks: the service, alone or
\* with one dependency, gets one command before a tick
\* ----------------------------------------------------------------------
CountRoot == 1

CountApps ==
    { << << 1, << >> >> >>,
      << << 2, << >> >>, << 1, << 2 >> >> >> }

\* every hook succeeds synchronously, or the init hook of the service
\* returns a task that stays pending, or an error
CountHooks ==
    { [ n \in NodeIds |-> DefaultHooks ] }
    \cup { [ n \in NodeIds |-> IF n = CountRoot THEN [ DefaultHooks EXCEPT !.on_init = k ]
                                                ELSE DefaultHooks ] : k \in { "async", "err" } }

CountInit == Registered(CountApps \X CountHooks)

CountNext ==
    \/ \E c \in { SpinUpCmd, SpinDownCmd, RestartCmd } : SubmitOne(CountRoot, c, MaxTicks + 1)
    \/ BeginTickWithin(MaxTicks + 1)
    \/ TickSystems
    \/ EndTickKeep

CountSpec == CountInit /\ [][CountNext]_vars

\* ----------------------------------------------------------------------
\* Specification of a service whose dependencies are resources or assets:
\* the service gets one command before a tick, and the assets load, fail
\* to load or are freed between ticks
\* ----------------------------------------------------------------------
KindRoot == 1

\* one dependency or two
KindApps ==
    { << << KindRoot, << 2 >> >> >>,
      << << KindRoot, << 2, 3 >> >> >> }

\* add_resource_with for every dependency, or add_asset for every one
KindChoices == { [ n \in NodeIds |-> k ] : k \in { "Resource", "Asset" } }

KindInit ==
    \E kinds \in KindChoices :
        RegisteredAs(KindApps \X { [ n \in NodeIds |-> DefaultHooks ] }, kinds)

\* the load of asset n or of its dependencies finishes or fails; an asset
\* whose container has been despawned may be freed
AssetProgress(n, limit) ==
    /\ ~InTick /\ ~panicked
    /\ ticks < limit
    /\ cache[n].kind = "Asset"
    /\ \/ \E s \in { "Loaded", "Failed" } :
             /\ assets[n].my = "Loading"
             /\ assets' = [ assets EXCEPT ![n].my = s ]
       \/ \E s \in { "Loaded", "Failed" } :
             /\ assets[n].deps = "Loading"
             /\ assets' = [ assets EXCEPT ![n].deps = s ]
       \/ /\ is_down(cache[n].status) /\ cache[n].status # StatusDefault
          /\ assets[n] # NotLoaded
          /\ assets' = [ assets EXCEPT ![n] = NotLoaded ]
    /\ UNCHANGED << graph, sorted, cache, lastReg, nregs, panicked, hooks, pending, pc,
                    hookLog, applied, startStatus, notes, ticks, submitted, serviceIds, lastEdit, serviceRes >>

KindNext ==
    \/ \E c \in { SpinUpCmd, SpinDownCmd } : SubmitOne(KindRoot, c, MaxTicks + 1)
    \/ \E n \in NodeIds : AssetProgress(n, MaxTicks + 1)
    \/ BeginTickWithin(MaxTicks + 1)
    \/ TickSystems
    \/ EndTickKeep

KindSpec == KindInit /\ [][KindNext]_vars

\* ----------------------------------------------------------------------
\* Specification of concurrent calls of NodeId::service: every caller
\* makes at most MaxCalls calls, each for one of the names, and the
\* scheduler lets every caller that can step do so
\* ----------------------------------------------------------------------
appVars ==
    << graph, sorted, cache, lastReg, nregs, panicked, hooks, pending, pc, hookLog,
       applied, startStatus, notes, ticks, submitted, assets, lastEdit, serviceRes >>

\* caller t enters NodeId::service for the name
CallService(t, name) ==
    /\ serviceIds.at[t] = "idle"
    /\ serviceIds.calls[t] < MaxCalls
    /\ serviceIds' = [ serviceIds EXCEPT !.at[t] = "lock_map", !.name[t] = name,
                           !.calls[t] = @ + 1, !.result[t] = NoId ]
    /\ UNCHANGED appVars

\* SERVICE_MAP.lock() returns when no other thread holds the mutex
LockMap(t) ==
    /\ serviceIds.at[t] = "lock_map"
    /\ serviceIds.mapOwner = Unlocked
    /\ serviceIds' = [ serviceIds EXCEPT !.mapOwner = t, !.at[t] = "get" ]
    /\ UNCHANGED appVars

\* match map.get(..): Some(val) is the result, None goes on to the index
GetId(t) ==
    /\ serviceIds.at[t] = "get"
    /\ serviceIds' = IF map_get(serviceIds, serviceIds.name[t]) # NoId
              THEN [ serviceIds EXCEPT !.result[t] = map_get(serviceIds, serviceIds.name[t]),
                                !.at[t] = "unlock_map" ]
              ELSE [ serviceIds EXCEPT !.at[t] = "lock_idx" ]
    /\ UNCHANGED appVars

\* SERVICE_IDX.lock(), with the map's guard still held
LockIdx(t) ==
    /\ serviceIds.at[t] = "lock_idx"
    /\ serviceIds.idxOwner = Unlocked
    /\ serviceIds' = [ serviceIds EXCEPT !.idxOwner = t, !.at[t] = "insert" ]
    /\ UNCHANGED appVars

InsertId(t) ==
    /\ serviceIds.at[t] = "insert"
    /\ serviceIds' = [ map_insert_next(serviceIds, serviceIds.name[t]) EXCEPT
                  !.result[t] = map_insert_next(serviceIds, serviceIds.name[t]).idx,
                  !.at[t] = "unlock_idx" ]
    /\ UNCHANGED appVars

\* the guards are dropped in reverse order: idx, then map
UnlockIdx(t) ==
    /\ serviceIds.at[t] = "unlock_idx"
    /\ serviceIds' = [ serviceIds EXCEPT !.idxOwner = Unlocked, !.at[t] = "unlock_map" ]
    /\ UNCHANGED appVars

\* the map's guard is dropped and the call returns Service(result)
UnlockMap(t) ==
    /\ serviceIds.at[t] = "unlock_map"
    /\ serviceIds' = [ serviceIds EXCEPT !.mapOwner = Unlocked, !.at[t] = "idle",
                           !.returned = @ \cup { << serviceIds.name[t], serviceIds.result[t] >> } ]
    /\ UNCHANGED appVars

\* the steps of caller t inside NodeId::service
ServiceCallStep(t) ==
    \/ LockMap(t)
    \/ GetId(t)
    \/ LockIdx(t)
    \/ InsertId(t)
    \/ UnlockIdx(t)
    \/ UnlockMap(t)

IdNext ==
    \/ \E t \in Callers, name \in ServiceNames : CallService(t, name)
    \/ \E t \in Callers : ServiceCallStep(t)

IdSpec == GraphInit /\ [][IdNext]_vars /\ \A t \in Callers : WF_vars(ServiceCallStep(t))

\* ----------------------------------------------------------------------
\* Specification of graph mutation: add_node, add_edge and remove_node in
\* any order, repeated calls included
\* ----------------------------------------------------------------------
Edited(op, a, b, g) ==
    /\ graph' = g
    /\ lastEdit' = [ op |-> op, a |-> a, b |-> b, changed |-> g # graph ]
    /\ UNCHANGED << sorted, cache, lastReg, nregs, panicked, hooks, pending, pc,
                    hookLog, applied, startStatus, notes, ticks, submitted, assets,
                    serviceIds, serviceRes >>

EditAddNode(n) == Edited("add_node", n, n, add_node(graph, n))

EditAddEdge(a, b) ==
    /\ Cardinality(graph.edges) < MaxLinks \/ <<a, b>> \in graph.edges
    /\ Edited("add_edge", a, b, add_edge(graph, a, b))

EditRemoveNode(n) == Edited("remove_node", n, n, remove_node(graph, n))

EditNext ==
    \/ \E n \in NodeIds : EditAddNode(n)
    \/ \E a, b \in NodeIds : EditAddEdge(a, b)
    \/ \E n \in NodeIds : EditRemoveNode(n)

EditSpec == GraphInit /\ [][EditNext]_vars

\* ----------------------------------------------------------------------
\* Specification of a shared dependency: two services declare the same
\* third service as their dependency, and either of the two gets one
\* command before a tick
\* ----------------------------------------------------------------------
SharedDep == 3

ShareApps ==
    { << << SharedDep, << >> >>, << 1, << SharedDep >> >>, << 2, << SharedDep >> >> >> }

ShareInit == Registered(ShareApps \X { [ n \in NodeIds |-> DefaultHooks ] })

ShareNext ==
    \/ \E n \in 1..2, c \in { SpinUpCmd, SpinDownCmd } : SubmitOne(n, c, MaxTicks + 1)
    \/ BeginTickWithin(MaxTicks + 1)
    \/ TickSystems
    \/ EndTickKeep

ShareSpec == ShareInit /\ [][ShareNext]_vars

\* ----------------------------------------------------------------------
\* Specification of a chain registered top down: service 1 declares 2,
\* service 2 declares 3, and service 3 is registered last or not at all;
\* service 1 gets one command before a tick
\* ----------------------------------------------------------------------
StaleApps ==
    { << << 1, << 2 >> >>, << 2, << 3 >> >> >>,
      << << 1, << 2 >> >>, << 2, << 3 >> >>, << 3, << >> >> >> }

StaleInit == Registered(StaleApps \X { [ n \in NodeIds |-> DefaultHooks ] })

StaleNext ==
    \/ \E c \in { SpinUpCmd, SpinDownCmd } : SubmitOne(1, c, MaxTicks + 1)
    \/ BeginTickWithin(MaxTicks + 1)
    \/ TickSystems
    \/ EndTickKeep

StaleSpec == StaleInit /\ [][StaleNext]_vars

\* ----------------------------------------------------------------------
\* Specification of the Service<T, D, E> state machine: the commands of
\* lifecycle/commands.rs applied to one service without dependencies, what
\* its hooks return being chosen at each call
\* ----------------------------------------------------------------------
InitOutcomes == { "true", "false", "err" }

HookOutcomes == { "ok", "err" }

ServiceDataValues == { 0, 1 }

StateInit ==
    /\ graph = EmptyGraph
    /\ sorted = NoResult
    /\ cache = [ n \in NodeIds |-> AbsentData ]
    /\ lastReg = NoReg
    /\ nregs = 0
    /\ panicked = FALSE
    /\ hooks = [ n \in NodeIds |-> DefaultHooks ]
    /\ pending = [ n \in NodeIds |-> << >> ]
    /\ pc = [ n \in NodeIds |-> "idle" ]
    /\ hookLog = << >>
    /\ applied = [ n \in NodeIds |-> NotApplied ]
    /\ startStatus = [ n \in NodeIds |-> StatusDefault ]
    /\ notes = [ n \in NodeIds |-> << >> ]
    /\ ticks = 0
    /\ submitted = [ n \in NodeIds |-> << >> ]
    /\ assets = [ n \in NodeIds |-> NotLoaded ]
    /\ serviceIds = IdsInit
    /\ lastEdit = NoEdit
    /\ serviceRes \in { NoService, Service_from_spec }

\* Command::apply: warns and returns when the resource is missing,
\* otherwise calls the handler r stands for the outcome of
Command_apply(cmd, r) ==
    /\ Len(serviceRes.history) < MaxCmds
    /\ serviceRes' =
         IF ~serviceRes.present
         THEN [ serviceRes EXCEPT !.history = Append(@, << cmd, "Missing" >>) ]
         ELSE [ r.self EXCEPT !.history = Append(@, << cmd, r.res.tag >>) ]
    /\ UNCHANGED << graph, sorted, cache, lastReg, nregs, panicked, hooks, pending, pc,
                    hookLog, applied, startStatus, notes, ticks, submitted, assets,
                    serviceIds, lastEdit >>

\* the service as a command finds it: nothing run, nothing triggered yet
Fresh == [ serviceRes EXCEPT !.ran = << >>, !.changes = << >> ]

InitService ==
    \E ini \in InitOutcomes, en \in HookOutcomes, dis \in HookOutcomes :
        Command_apply("Init", Service_on_init(Fresh, ini, en, dis))

EnableService ==
    \E ini \in InitOutcomes, en \in HookOutcomes, dis \in HookOutcomes :
        Command_apply("Enable", Service_on_enable(Fresh, ini, en, dis))

DisableService ==
    \E dis \in HookOutcomes : Command_apply("Disable", Service_on_disable(Fresh, dis))

FailService ==
    Command_apply("Fail", Service_on_fail_cmd(Fresh, ServiceErrorKind("Own", "oh no")))

UpdateService ==
    \E d \in ServiceDataValues, upd \in HookOutcomes :
        Command_apply("Update", Service_on_update(Fresh, d, upd))

StateNext ==
    \/ InitService
    \/ EnableService
    \/ DisableService
    \/ FailService
    \/ UpdateService

StateSpec == StateInit /\ [][StateNext]_vars

\* Registration with room for one edge more than RegSpec: two cycles
\* through one node fit
RegCycleNext == \E id \in NodeIds, deps \in DepSeqs : Register(id, deps, MaxEdges + 1)

RegCycleSpec == RegInit /\ [][RegCycleNext]_vars

\* ----------------------------------------------------------------------
\* Graph notions the claims are stated with
\* ----------------------------------------------------------------------
Successors(E, S) == { e[2] : e \in { x \in E : x[1] \in S } }

RECURSIVE Closure(_, _)
Closure(E, S) ==
    LET T == S \cup Successors(E, S) IN IF T = S THEN S ELSE Closure(E, T)

\* the nodes reached from n through one or more edges
Reachable(E, n) == Closure(E, Successors(E, { n }))

HasSelfLoop(E) == \E e \in E : e[1] = e[2]

\* some node reaches itself (a self-loop or a longer cycle)
HasCycle(E) == \E e \in E : e[1] \in Reachable(E, e[1])

IsPermutation(order, ns) ==
    /\ Len(order) = Len(ns)
    /\ Range(order) = Range(ns)
    /\ \A i, j \in 1..Len(order) : i # j => order[i] # order[j]

\* ----------------------------------------------------------------------
\* Claims about topsort_graph (GraphSpec)
\* ----------------------------------------------------------------------
\* C1 as written: an Ok result lists every node exactly once and puts, for
\* every edge (dependent, dependency), the dependency before the dependent.
C1_DependencyFirst ==
    sorted.ok =>
        /\ IsPermutation(sorted.order, graph.nodes)
        /\ \A e \in graph.edges :
               IndexOf(sorted.order, e[2]) < IndexOf(sorted.order, e[1])

\* C1 amended: for every acyclic edge set without self-loops topsort_graph
\* returns Ok, the result lists every node exactly once, and for every edge
\* (dependent, dependency) the dependent comes before the dependency.
C1_DependentFirst ==
    sorted # NoResult =>
        /\ ~HasCycle(graph.edges) => sorted.ok
        /\ sorted.ok =>
               /\ IsPermutation(sorted.order, graph.nodes)
               /\ \A e \in graph.edges :
                      IndexOf(sorted.order, e[1]) < IndexOf(sorted.order, e[2])

C1_Witness ==
    /\ sorted.ok
    /\ Len(graph.nodes) = MaxNodes
    /\ Cardinality(graph.edges) >= 2

\* C2: topsort_graph returns an error exactly when the graph has a self-loop
\* or a directed cycle.
C2_ErrorIffCycle ==
    sorted # NoResult => (~sorted.ok <=> HasCycle(graph.edges))

C2_Witness ==
    /\ sorted # NoResult
    /\ ~sorted.ok
    /\ ~HasSelfLoop(graph.edges)
    /\ Cardinality(graph.edges) = MaxEdges

\* ----------------------------------------------------------------------
\* Claims about registration (RegSpec, RegWideSpec)
\* ----------------------------------------------------------------------
\* C3 as written: while every registration has succeeded, each registered
\* service's list holds exactly the nodes reachable from it, each once,
\* and not the service itself.
C3_ListIsReachableSet ==
    ~panicked =>
        \A s \in NodeIds :
            cache[s].registered =>
                /\ Range(cache[s].deps) = Reachable(graph.edges, s)
                /\ \A i, j \in 1..Len(cache[s].deps) :
                       i # j => cache[s].deps[i] # cache[s].deps[j]
                /\ s \notin Range(cache[s].deps)

\* the list register has just stored for its root
LastList == cache[lastReg.node].deps

LastOk == lastReg.node # 0 /\ lastReg.panic = "None"

\* C4 as written: in the list just returned, every edge of the global graph
\* between two members has the dependency before the dependent.
C4_DependenciesBefore ==
    LastOk =>
        \A i, j \in 1..Len(LastList) :
            << LastList[i], LastList[j] >> \in graph.edges => j < i

\* C4 amended: in the list just returned, every edge of the global graph
\* between two members has the dependent before the dependency.
C4_DependentsBefore ==
    LastOk =>
        \A i, j \in 1..Len(LastList) :
            << LastList[i], LastList[j] >> \in graph.edges => i < j

C4_Witness ==
    /\ LastOk
    /\ \E i, j \in 1..Len(LastList) : << LastList[i], LastList[j] >> \in graph.edges

\* C5 as written: a registration whose root reaches no cycle and no
\* self-loop succeeds, whatever else the graph holds.
C5_UnrelatedCycleIgnored ==
    (/\ lastReg.node # 0
     /\ ~HasCycle({ e \in graph.edges :
                      e[1] \in { lastReg.node } \cup Reachable(graph.edges, lastReg.node) }))
        => lastReg.panic = "None"

\* C6: a registration fails with DepLoop exactly when the graph holds an
\* edge from a node to itself, also when it holds a longer cycle as well;
\* then it does not fail with DepCycle.
C6_LoopErrorIffSelfEdge ==
    lastReg.node # 0 =>
        /\ HasSelfLoop(graph.edges) <=> lastReg.res.err = "DepLoop"
        /\ HasSelfLoop(graph.edges) => lastReg.panic = "InvalidDeps"

C6_Witness ==
    /\ lastReg.res.err = "DepLoop"
    /\ \E e \in graph.edges : e[1] # e[2] /\ e[1] \in Reachable(graph.edges, e[2])

\* C7 as written: when every registration so far has succeeded, A was
\* registered with dependency B, and B is now registered with dependency A
\* (no node depending on itself), the call fails with DepCycle and a cycle
\* it reports holds both A and B.
C7_CycleNamesBoth ==
    [][ \A a, b \in NodeIds :
          (/\ ~panicked
           /\ a # b
           /\ cache[a].registered
           /\ << a, b >> \in graph.edges
           /\ nregs' = nregs + 1
           /\ lastReg'.node = b
           /\ a \in Range(lastReg'.deps)
           /\ ~HasSelfLoop(graph'.edges))
          => /\ lastReg'.res.err = "DepCycle"
             /\ \E i \in 1..Len(lastReg'.res.cycles) :
                    { a, b } \subseteq Range(lastReg'.res.cycles[i]) ]_vars

\* ----------------------------------------------------------------------
\* Claims about commands (LifeSpec)
\* ----------------------------------------------------------------------
\* the step in which the pending commands of service n are resolved
WatchStep(n) == pc[n] = "watch_service_commands" /\ pc'[n] = "poll_tasks"

\* what a system did to the records and which hooks it ran
Effect(w) == << w.cache, w.log >>

\* the number of times the hook of service n is in the log
RECURSIVE HookCount(_, _, _)
HookCount(log, n, hook) ==
    IF log = << >> THEN 0
    ELSE (IF Head(log) = << n, hook >> THEN 1 ELSE 0) + HookCount(Tail(log), n, hook)

HasCommand(cmds, k) == \E i \in 1..Len(cmds) : cmds[i].cmd = k

\* C8: spin_up applied to a service that is Up changes no record (status,
\* notification queue, dependencies) and runs no hook; spin_down applied to
\* a service that is Down, for whatever reason, changes no record and runs
\* no hook.
C8_RedundantCallsDoNothing ==
    [][ \A n \in NodeIds :
          (WatchStep(n) /\ pending[n] # << >>) =>
              /\ (applied'[n].command = SpinUpCmd /\ is_up(cache[n].status))
                     => (cache' = cache /\ hookLog' = hookLog)
              /\ (applied'[n].command = SpinDownCmd /\ is_down(cache[n].status))
                     => (cache' = cache /\ hookLog' = hookLog) ]_vars

C8_Witness ==
    \E n, m \in NodeIds :
        /\ applied[n].command = SpinUpCmd /\ is_up(applied[n].status)
        /\ applied[m].command = SpinDownCmd /\ is_down(applied[m].status)
        /\ is_up(cache[n].status) /\ is_down(cache[m].status)
        /\ hookLog = << >>

\* C9: of the commands pending for a service the one applied has the lowest
\* priority number for the status the service had when the tick started:
\* fail wins over everything, restart over spin_up and spin_down, and of
\* spin_up and spin_down the one that changes the status wins.
C9_LowestPriorityNumberWins ==
    [][ \A n \in NodeIds :
          (WatchStep(n) /\ pending[n] # << >>) =>
              /\ \E i \in 1..Len(pending[n]) : pending[n][i] = applied'[n].command
              /\ << cache', hookLog' >> = Effect(ApplyCommand(World, n, applied'[n].command))
              /\ \A j \in 1..Len(pending[n]) :
                     CommandPriority(applied'[n].command, startStatus[n])
                         <= CommandPriority(pending[n][j], startStatus[n])
              /\ HasCommand(pending[n], "fail") => applied'[n].command.cmd = "fail"
              /\ (~HasCommand(pending[n], "fail") /\ HasCommand(pending[n], "restart"))
                     => applied'[n].command = RestartCmd
              /\ (/\ ~HasCommand(pending[n], "fail")
                  /\ ~HasCommand(pending[n], "restart")
                  /\ HasCommand(pending[n], "spin_up")
                  /\ HasCommand(pending[n], "spin_down"))
                     => /\ is_up(startStatus[n]) => applied'[n].command = SpinDownCmd
                        /\ is_down(startStatus[n]) => applied'[n].command = SpinUpCmd ]_vars

C9_Witness ==
    \E n \in NodeIds :
        /\ applied[n].among = << SpinUpCmd, SpinDownCmd >>
        /\ is_up(startStatus[n])
        /\ applied[n].command = SpinDownCmd
        /\ is_down(cache[n].status)

RootSettledAfter(c) ==
    /\ ~InTick /\ ~panicked
    /\ pending[ChainRoot] = << >>
    /\ submitted[ChainRoot] # << >>
    /\ submitted[ChainRoot][Len(submitted[ChainRoot])] = c

\* C11: when the init hook of the leaf of the chain fails with E, then
\* after the tick that applies spin_up to the root the leaf is
\* Down(Failed(Own(E))) and every other service is Down(Failed(Dependency))
\* naming the service it depends on with the text of that service's error,
\* in whatever order the services were registered.
C11_FailurePropagates ==
    (hooks[ChainLeaf].on_init = "err" /\ RootSettledAfter(SpinUpCmd)) =>
        /\ cache[ChainLeaf].status = Down(Failed(HookError(ChainLeaf, "on_init")))
        /\ \A i \in NodeIds \ { ChainLeaf } :
               cache[i].status =
                   Down(Failed(Dependency(name_from_type(i + 1),
                                          to_string(cache[i + 1].status.reason.error))))

C11_Witness ==
    /\ hooks[ChainLeaf].on_init = "err"
    /\ RootSettledAfter(SpinUpCmd)
    /\ ticks = 1
    /\ graph.nodes[1] = ChainLeaf
    /\ is_failed(cache[ChainRoot].status)

\* ----------------------------------------------------------------------
\* Claims about hooks that return a task (AsyncSpec)
\* ----------------------------------------------------------------------
\* every system of the tick has run
TickDone == \A n \in NodeIds : pc[n] = "done"

\* the service has failed or is on its way there
Failing(s) == s.tag \in { "Deinit", "Down" } /\ s.reason.tag = "Failed"

\* every dependency in the list of service n has the status goal
DepsAt(n, goal) == \A i \in 1..Len(cache[n].deps) : cache[cache[n].deps[i]].status = goal

\* C12: in a tick that applies no command, a service that was Init when the
\* tick started and has not failed is Init at the end of the tick while a
\* task of its is pending, and Up at the end of the first tick that finds
\* no task pending and all its dependencies Up; likewise Deinit(r) and
\* Down(r) with dependencies that are Down(r).
C12_AsyncCompletion ==
    (TickDone /\ ~panicked /\ applied[AsyncRoot] = NotApplied) =>
        \A n \in Scheduled :
            /\ (is_initializing(startStatus[n]) /\ ~Failing(cache[n].status)) =>
                   /\ cache[n].tasks # << >> => is_initializing(cache[n].status)
                   /\ (cache[n].tasks = << >> /\ DepsAt(n, Up)) => is_up(cache[n].status)
                   /\ is_up(cache[n].status) \/ is_initializing(cache[n].status)
            /\ (is_deinitializing(startStatus[n]) /\ ~Failing(cache[n].status)
                    /\ startStatus[n].reason = SpunDown) =>
                   /\ cache[n].tasks # << >> => cache[n].status = startStatus[n]
                   /\ (cache[n].tasks = << >> /\ DepsAt(n, Down(SpunDown)))
                          => cache[n].status = Down(SpunDown)
                   /\ cache[n].status \in { startStatus[n], Down(SpunDown) }

\* a service whose init hook returned a task stayed Init over a tick and
\* is Up at the end of the next
C12_Witness ==
    \E n \in Scheduled :
        /\ TickDone /\ applied[AsyncRoot] = NotApplied
        /\ hooks[n].on_init = "async"
        /\ is_initializing(startStatus[n])
        /\ is_up(cache[n].status)
        /\ ticks = MaxTicks
        /\ Len(notes[n]) = 2

\* ----------------------------------------------------------------------
\* Claims about ticks that never stop (LiveSpec)
\* ----------------------------------------------------------------------
\* C13 as written: with ticks that go on and tasks that resolve, a service
\* that is Init is later Up or Down, and a service that is Deinit is later
\* Down.
C13_InitDeinitTransient ==
    \A n \in NodeIds :
        /\ is_initializing(cache[n].status)
               ~> (is_up(cache[n].status) \/ is_down(cache[n].status))
        /\ is_deinitializing(cache[n].status) ~> is_down(cache[n].status)

\* ----------------------------------------------------------------------
\* Claims about counting hooks (CountSpec)
\* ----------------------------------------------------------------------
\* the Count resource as service n sees it: init, up, deinit, down
Count(log, n) ==
    << HookCount(log, n, "on_init"), HookCount(log, n, "on_up"),
       HookCount(log, n, "on_deinit"), HookCount(log, n, "on_down") >>

\* between ticks, every command submitted to the service has had its tick
Settled(n) == ~InTick /\ ~panicked /\ pending[n] = << >>

\* C14: for a service whose hooks succeed synchronously, after spin_up the
\* hooks have run init 1, up 1; after spin_up, spin_down each of the four
\* has run once; after spin_up, spin_down, spin_up, one command per tick,
\* init 2, up 2, deinit 1, down 1.
C14_RoundTripCounts ==
    (Settled(CountRoot) /\ hooks[CountRoot] = DefaultHooks) =>
        /\ submitted[CountRoot] = << SpinUpCmd >>
               => Count(hookLog, CountRoot) = << 1, 1, 0, 0 >>
        /\ submitted[CountRoot] = << SpinUpCmd, SpinDownCmd >>
               => Count(hookLog, CountRoot) = << 1, 1, 1, 1 >>
        /\ submitted[CountRoot] = << SpinUpCmd, SpinDownCmd, SpinUpCmd >>
               => Count(hookLog, CountRoot) = << 2, 2, 1, 1 >>

C14_Witness ==
    /\ Settled(CountRoot) /\ hooks[CountRoot] = DefaultHooks
    /\ submitted[CountRoot] = << SpinUpCmd, SpinDownCmd, SpinUpCmd >>
    /\ Count(hookLog, CountRoot) = << 2, 2, 1, 1 >>
    /\ is_up(cache[CountRoot].status)

\* C15: restart applied to a service that is Up takes it to Init and then
\* to Up in the same call and runs its init hook and its up hook once each
\* and no other hook; applied to a service that is not Up it leaves the
\* records and the hook log exactly as spin_up would.
C15_RestartReinitializes ==
    [][(WatchStep(CountRoot) /\ pending[CountRoot] = << RestartCmd >>) =>
          IF is_up(cache[CountRoot].status)
          THEN /\ is_up(cache'[CountRoot].status)
               /\ cache'[CountRoot].event_queue =
                      cache[CountRoot].event_queue \o
                          << [ old_status |-> Up, new_status |-> Init, id |-> CountRoot ],
                             [ old_status |-> Init, new_status |-> Up, id |-> CountRoot ] >>
               /\ hookLog' = hookLog \o << << CountRoot, "on_init" >>, << CountRoot, "on_up" >> >>
          ELSE /\ << cache', hookLog' >> = Effect(ApplyCommand(World, CountRoot, SpinUpCmd))
               /\ panicked' = ApplyCommand(World, CountRoot, SpinUpCmd).panic]_vars

\* restart has been applied to the service when it was Up
C15_Witness ==
    /\ Settled(CountRoot)
    /\ submitted[CountRoot] = << SpinUpCmd, RestartCmd >>
    /\ is_up(cache[CountRoot].status)
    /\ Count(hookLog, CountRoot) = << 2, 2, 0, 0 >>
    /\ Len(notes[CountRoot]) = 4

\* ----------------------------------------------------------------------
\* Claims about chains whose hooks succeed synchronously (ChainSpec)
\* ----------------------------------------------------------------------
SyncChain == \A n \in NodeIds : hooks[n] = DefaultHooks

HasUnregisteredDep(n) ==
    \E d \in Range(neighbors(graph, n)) : d # n /\ d \notin Scheduled

\* C17: a registered service that declares a dependency which was never
\* registered is never Up and never Init, and once a spin_up command has
\* been applied to it, it is Down(Failed(Dependency(..))).
C17_UnregisteredDepFails ==
    \A n \in Scheduled :
        HasUnregisteredDep(n) =>
            /\ ~is_up(cache[n].status) /\ ~is_initializing(cache[n].status)
            /\ applied[n].command = SpinUpCmd =>
                   /\ is_failed(cache[n].status)
                   /\ cache[n].status.reason.error.tag = "Dependency"

C17_Witness ==
    \E n \in Scheduled :
        /\ HasUnregisteredDep(n)
        /\ TickDone
        /\ applied[n].command = SpinUpCmd
        /\ applied[n].among = << SpinUpCmd >>
        /\ is_failed(cache[n].status)
        /\ cache[n].status.reason.error.tag = "Dependency"

\* ----------------------------------------------------------------------
\* Claims about resources and assets as dependencies (KindSpec)
\* ----------------------------------------------------------------------
\* every dependency of service n is of kind k
DepsOfKind(n, k) ==
    /\ cache[n].deps # << >>
    /\ \A i \in 1..Len(cache[n].deps) : cache[cache[n].deps[i]].kind = k

\* C18 as written: for a service whose dependencies are resources, once
\* spin_up has had its tick the init system of each resource has run once
\* and the service is Up; once a spin_down after it has had its tick the
\* deinit system of each resource has run once and the service is
\* Down(SpunDown).
C18_ResourceDepsCycle ==
    (DepsOfKind(KindRoot, "Resource") /\ Settled(KindRoot)) =>
        /\ submitted[KindRoot] = << SpinUpCmd >> =>
               /\ \A i \in 1..Len(cache[KindRoot].deps) :
                      HookCount(hookLog, cache[KindRoot].deps[i], "init") = 1
               /\ is_up(cache[KindRoot].status)
        /\ submitted[KindRoot] = << SpinUpCmd, SpinDownCmd >> =>
               /\ \A i \in 1..Len(cache[KindRoot].deps) :
                      HookCount(hookLog, cache[KindRoot].deps[i], "deinit") = 1
               /\ cache[KindRoot].status = Down(SpunDown)

\* the status the load state of asset d stands for when it is sampled
Sampled(d) == update_asset_status(assets[d], name_from_type(d))

\* the assets in the list of service n
AssetsOf(n) == { d \in Range(cache[n].deps) : cache[d].kind = "Asset" }

\* the last command submitted to service n, applied by now, is c
LastApplied(n, c) ==
    /\ pending[n] = << >>
    /\ submitted[n] # << >>
    /\ submitted[n][Len(submitted[n])] = c

\* the step of update_dep_status for service n
DepStatusStep(n) == pc[n] = "update_dep_status" /\ pc'[n] = "update_async_state"

\* C19: at the end of a tick, a service whose dependencies are assets and
\* whose last command was spin_up is Init when the assets are sampled as
\* loading or loaded with one of them still loading, and Up when all are
\* sampled as loaded; when its last command was a spin_down after a
\* spin_up, the service and the record of every asset are Down; and
\* update_dep_status changes no record while the service is Down.
C19_AssetDepsFollowLoad ==
    /\ [](( DepsOfKind(KindRoot, "Asset") /\ TickDone /\ ~panicked ) =>
            /\ ( LastApplied(KindRoot, SpinUpCmd)
                   /\ \A d \in AssetsOf(KindRoot) : Sampled(d) \in { Init, Up } ) =>
                   /\ (\E d \in AssetsOf(KindRoot) : Sampled(d) = Init)
                          => is_initializing(cache[KindRoot].status)
                   /\ (\A d \in AssetsOf(KindRoot) : Sampled(d) = Up)
                          => is_up(cache[KindRoot].status)
                   /\ \A d \in AssetsOf(KindRoot) : cache[d].status = Sampled(d)
            /\ ( LastApplied(KindRoot, SpinDownCmd)
                   /\ HasCommand(submitted[KindRoot], "spin_up") ) =>
                   /\ is_down(cache[KindRoot].status)
                   /\ \A d \in AssetsOf(KindRoot) : is_down(cache[d].status))
    /\ [][(DepStatusStep(KindRoot) /\ is_down(cache[KindRoot].status))
             => cache' = cache]_vars

\* the service was spun up, its asset loaded, and it was spun down: the
\* record of the asset is Down(SpunDown) although the asset is loaded
C19_Witness ==
    /\ DepsOfKind(KindRoot, "Asset")
    /\ Settled(KindRoot)
    /\ submitted[KindRoot] = << SpinUpCmd, SpinDownCmd >>
    /\ ticks = MaxTicks + 1
    /\ Len(notes[KindRoot]) = 4
    /\ cache[KindRoot].status = Down(SpunDown)
    /\ \A d \in AssetsOf(KindRoot) : cache[d].status = Down(SpunDown) /\ Sampled(d) = Up

\* ----------------------------------------------------------------------
\* Claims about the notification stream (AsyncSpec)
\* ----------------------------------------------------------------------
\* the entries produced for service n so far: those delivered, then those
\* still in its queue
Stream(n) == notes[n] \o cache[n].event_queue

\* s starts at Down(Uninitialized), each entry starts where the one before
\* it ended, and the last ends at status
Chained(s, n, status) ==
    IF s = << >> THEN status = StatusDefault
    ELSE /\ s[1].old_status = StatusDefault
         /\ \A i \in 1..Len(s) : s[i].id = n
         /\ \A i \in 1..(Len(s) - 1) : s[i + 1].old_status = s[i].new_status
         /\ s[Len(s)].new_status = status

IsPrefix(s, t) == Len(s) <= Len(t) /\ SubSeq(t, 1, Len(s)) = s

\* the step of broadcast_new_state for service n
BroadcastStep(n) == pc[n] = "broadcast_new_state" /\ pc'[n] = "done"

\* C20: the entries produced for a service, delivered or queued, start at
\* Down(Uninitialized), chain from one to the next and end at the status
\* the service has; no step drops or reorders an entry; and
\* broadcast_new_state delivers the queue in order and leaves it empty.
C20_StreamIsStatusHistory ==
    /\ [](\A n \in Scheduled : Chained(Stream(n), n, cache[n].status))
    /\ [][\A n \in Scheduled :
             /\ IsPrefix(Stream(n), notes'[n] \o cache'[n].event_queue)
             /\ IsPrefix(notes[n], notes'[n])
             /\ BroadcastStep(n) =>
                    /\ notes'[n] = Stream(n)
                    /\ cache'[n].event_queue = << >>]_vars

\* a service whose init hook returned a task has been spun up and down
\* over three ticks and its four entries have been delivered
C20_Witness ==
    \E n \in Scheduled :
        /\ ~InTick
        /\ hooks[n].on_init = "async"
        /\ Len(notes[n]) = 4
        /\ cache[n].event_queue = << >>
        /\ notes[n][2].new_status = Up
        /\ cache[n].status = Down(SpunDown)

\* ----------------------------------------------------------------------
\* Claims about NodeId::service (IdSpec)
\* ----------------------------------------------------------------------
\* C21: of the identifiers NodeId::service has returned, two are equal
\* exactly when they were returned for the same name, however the callers
\* interleave; and every call that has started returns.
C21_OneIdPerName ==
    /\ [](\A p, q \in serviceIds.returned : (p[1] = q[1]) <=> (p[2] = q[2]))
    /\ [](\A p \in serviceIds.returned : p[2] # NoId)
    /\ \A t \in Callers : (serviceIds.at[t] # "idle") ~> (serviceIds.at[t] = "idle")

\* two callers were inside NodeId::service for the same name at once, one
\* waiting for the map's mutex, and all the names have their identifiers
C21_Witness ==
    /\ \E s \in ServiceNames : { p \in serviceIds.returned : p[1] = s } # {}
    /\ \E t, u \in Callers :
          /\ t # u
          /\ serviceIds.name[t] = serviceIds.name[u]
          /\ serviceIds.at[t] = "lock_map"
          /\ serviceIds.at[u] = "unlock_idx"
    /\ serviceIds.idx = 2

\* ----------------------------------------------------------------------
\* Graph mutation
\* ----------------------------------------------------------------------
\* the adjacency entries of the graph as (owner, neighbour, direction)
AdjEntries(g) ==
    UNION { { <<n, e[1], e[2]>> : e \in Range(g.adj[n]) } : n \in NodeIds }

\* the edges or adjacency entries that do not mention n
Without(S, n) == { x \in S : x[1] # n /\ x[2] # n }

AdjAgrees(g) ==
    /\ \A e \in g.edges :
          /\ e[1] \in Range(g.nodes) /\ e[2] \in Range(g.nodes)
          /\ e[1] # e[2] =>
                /\ <<e[1], e[2], Outgoing>> \in AdjEntries(g)
                /\ <<e[2], e[1], Incoming>> \in AdjEntries(g)
    /\ \A x \in AdjEntries(g) :
          IF x[3] = Outgoing THEN <<x[1], x[2]>> \in g.edges
                             ELSE <<x[2], x[1]>> \in g.edges

Removed(before, after, n) ==
    /\ n \notin Range(after.nodes)
    /\ Range(after.nodes) = Range(before.nodes) \ { n }
    /\ after.edges = Without(before.edges, n)
    /\ AdjEntries(after) = Without(AdjEntries(before), n)

\* C22: after any sequence of add_node, add_edge and remove_node the edge
\* set and the adjacency lists agree (every edge between two different
\* nodes has its Outgoing and its Incoming entry, every entry has its edge,
\* every endpoint is a node), and remove_node(n) leaves no trace of n and
\* changes no other node, edge or entry.
C22_AdjacencyAgrees ==
    /\ [] AdjAgrees(graph)
    /\ [][ lastEdit'.op = "remove_node" => Removed(graph, graph', lastEdit'.a) ]_vars

C22_Witness ==
    /\ lastEdit.op = "remove_node"
    /\ lastEdit.changed
    /\ graph.edges # {}
    /\ lastEdit.a \notin Range(graph.nodes)
    /\ \E i \in NodeIds : Len(graph.adj[i]) = 2

\* C23: add_edge(a, b) makes a and b nodes and (a, b) an edge, a second
\* call with the same pair changes nothing, and no node or adjacency entry
\* is ever stored twice.
C23_AddEdgeIdempotent ==
    /\ [] \A n \in NodeIds : Cardinality(Range(graph.adj[n])) = Len(graph.adj[n])
    /\ [] (Cardinality(Range(graph.nodes)) = Len(graph.nodes))
    /\ [][ lastEdit'.op = "add_edge" =>
             /\ lastEdit'.a \in Range(graph'.nodes)
             /\ lastEdit'.b \in Range(graph'.nodes)
             /\ <<lastEdit'.a, lastEdit'.b>> \in graph'.edges
             /\ add_edge(graph', lastEdit'.a, lastEdit'.b) = graph'
             /\ <<lastEdit'.a, lastEdit'.b>> \in graph.edges => graph' = graph ]_vars

C23_Witness ==
    /\ lastEdit.op = "add_edge"
    /\ ~lastEdit.changed
    /\ lastEdit.a # lastEdit.b
    /\ <<lastEdit.a, lastEdit.b>> \in graph.edges

\* ----------------------------------------------------------------------
\* Claims about where an error is recorded
\* ----------------------------------------------------------------------
\* C24 as written: when the init hook of a service returns the error E
\* during spin_up, the service is Down(Failed(Own(E))) after the tick,
\* with or without a service dependency that spin_up brought Up.
C24_OwnInitErrorRecorded ==
    ( /\ Settled(CountRoot)
      /\ hooks[CountRoot].on_init = "err"
      /\ submitted[CountRoot] = << SpinUpCmd >> ) =>
        cache[CountRoot].status = Down(Failed(HookError(CountRoot, "on_init")))

\* C25 as written: a status carries Failed(Own(e)) only on the service
\* whose own hook produced e (no fail command and no task failure occurs
\* in this specification), and a Dependency error names another service
\* and carries the text of an error that service's hook produced.
C25_OwnErrorsStayHome ==
    \A n \in Scheduled :
        Failing(cache[n].status) =>
            LET e == cache[n].status.reason.error
            IN  /\ e.tag = "Own" =>
                      \E h \in { "on_init", "on_up", "on_deinit" } : e = HookError(n, h)
                /\ e.tag = "Dependency" =>
                      \E d \in Scheduled \ { n } :
                          /\ e.name = name_from_type(d)
                          /\ \E h \in { "on_init", "on_up", "on_deinit" } :
                                 e.msg = to_string(HookError(d, h))

\* ----------------------------------------------------------------------
\* Claims about the hooks that go with a transition
\* ----------------------------------------------------------------------
\* the number of entries of s that end at status
RECURSIVE EntriesTo(_, _)
EntriesTo(s, status) ==
    IF s = << >> THEN 0
    ELSE (IF Head(s).new_status = status THEN 1 ELSE 0) + EntriesTo(Tail(s), status)

\* C26 as written: every transition of a service to Up comes with one
\* invocation of its up hook and every transition to Down(SpunDown) with
\* one invocation of its down hook, so a service has run its up hook at
\* least as often as it became Up and its down hook at least as often as
\* it became Down(SpunDown), also when it settled on a later tick.
C26_HooksGoWithTransitions ==
    \A n \in Scheduled :
        /\ EntriesTo(Stream(n), Up) <= HookCount(hookLog, n, "on_up")
        /\ EntriesTo(Stream(n), Down(SpunDown)) <= HookCount(hookLog, n, "on_down")

\* ----------------------------------------------------------------------
\* Claims about tasks
\* ----------------------------------------------------------------------
\* C27 as written: a service that holds a task which has not resolved is
\* Init or Deinit.
C27_TasksOnlyWhileInFlight ==
    \A n \in Scheduled :
        Contains(cache[n].tasks, "pending") =>
            is_initializing(cache[n].status) \/ is_deinitializing(cache[n].status)

\* ----------------------------------------------------------------------
\* Claims about a service and its dependencies
\* ----------------------------------------------------------------------
\* C28 as written: between ticks, every dependency in the list of a service
\* that is Up is Up.
C28_UpMeansDepsUp ==
    \A n \in Scheduled :
        (~InTick /\ is_up(cache[n].status)) => DepsAt(n, Up)

\* the step has queued an entry for service n and left it Up: the service
\* has become Up in this step
BecomesUp(n) ==
    /\ Len(cache'[n].event_queue) > Len(cache[n].event_queue)
    /\ is_up(cache'[n].status)

\* C29: a step in which a service becomes Up leaves every dependency in
\* its list Up.
C29_UpOnlyWithDepsUp ==
    [][ \A n \in Scheduled :
          BecomesUp(n) =>
              \A i \in 1..Len(cache'[n].deps) : is_up(cache'[cache'[n].deps[i]].status) ]_vars

\* a service with a dependency has just been taken from Init to Up by
\* update_async_state, its dependency being Up
C29_Witness ==
    \E n \in Scheduled :
        /\ cache[n].deps # << >>
        /\ pc[n] = "broadcast_new_state"
        /\ applied[n].command = NoCommand
        /\ cache[n].event_queue = << [ old_status |-> Init, new_status |-> Up, id |-> n ] >>
        /\ DepsAt(n, Up)

\* C30 as written: when spin_up of the root of the chain finds that the
\* spin-up of a dependency has ended in failure (the init hook of the leaf
\* returns an error), every service above the leaf is failed with a
\* Dependency error and its own init hook has not run.
C30_DepFailureSkipsInit ==
    ( /\ RootSettledAfter(SpinUpCmd)
      /\ submitted[ChainRoot] = << SpinUpCmd >>
      /\ hooks[ChainLeaf].on_init = "err" ) =>
        \A n \in Scheduled \ { ChainLeaf } :
            /\ is_failed(cache[n].status)
            /\ cache[n].status.reason.error.tag = "Dependency"
            /\ HookCount(hookLog, n, "on_init") = 0

\* ----------------------------------------------------------------------
\* Claims about the order of hooks and systems
\* ----------------------------------------------------------------------
\* the hooks the step has run, in order
NewHooks == SubSeq(hookLog', Len(hookLog) + 1, Len(hookLog'))

\* the hook of service d is in the log before position p
InvokedBefore(log, p, d, hook) == \E q \in 1..(p - 1) : log[q] = << d, hook >>

\* the service dependencies in the list of service m
ServiceDeps(m) == { d \in Range(cache[m].deps) : cache[d].kind = "Service" }

\* whenever the step runs the init hook of a service, each service in its
\* list has had its init hook run earlier in the step or was Up or Init
\* when the step began; likewise the deinit hook, Down and Deinit
HooksAfterDeps ==
    \A p \in 1..Len(NewHooks) : \A m \in Scheduled :
        /\ NewHooks[p] = << m, "on_init" >> =>
               \A d \in ServiceDeps(m) :
                   \/ InvokedBefore(NewHooks, p, d, "on_init")
                   \/ is_up(cache[d].status) \/ is_initializing(cache[d].status)
        /\ NewHooks[p] = << m, "on_deinit" >> =>
               \A d \in ServiceDeps(m) :
                   \/ InvokedBefore(NewHooks, p, d, "on_deinit")
                   \/ is_down(cache[d].status) \/ is_deinitializing(cache[d].status)

\* as HooksAfterDeps, a dependency whose own spin-up has failed in the step
\* before its init hook was reached counting as dealt with
HooksAfterDepsOrFailed ==
    \A p \in 1..Len(NewHooks) : \A m \in Scheduled :
        /\ NewHooks[p] = << m, "on_init" >> =>
               \A d \in ServiceDeps(m) :
                   \/ InvokedBefore(NewHooks, p, d, "on_init")
                   \/ is_up(cache[d].status) \/ is_initializing(cache[d].status)
                   \/ Failing(cache'[d].status)
        /\ NewHooks[p] = << m, "on_deinit" >> =>
               \A d \in ServiceDeps(m) :
                   \/ InvokedBefore(NewHooks, p, d, "on_deinit")
                   \/ is_down(cache[d].status) \/ is_deinitializing(cache[d].status)

\* the systems of a service start in a tick only when the systems of every
\* service it declares as a dependency have finished
SystemsAfterDeps ==
    \A n \in Scheduled :
        WatchStep(n) => \A d \in Range(neighbors(graph, n)) \ { n } : pc[d] = "done"

C32_InitHookOncePerPass ==
    (RootSettledAfter(SpinUpCmd) /\ submitted[ChainRoot] = << SpinUpCmd >>) =>
        \A n \in NodeIds : HookCount(hookLog, n, "on_init") <= 1

\* ----------------------------------------------------------------------
\* Claims about polled tasks
\* ----------------------------------------------------------------------
\* the step of poll_tasks for service n, with the fail it queues applied
PollStep(n) == pc[n] = "poll_tasks" /\ pc'[n] = "update_dep_status"

\* the step of update_async_state for service n
AsyncStateStep(n) == pc[n] = "update_async_state" /\ pc'[n] = "broadcast_new_state"

\* the error a failed task of service n is reported with
TaskError(n) == Own(<< "task", name_from_type(n), "failed" >>)

\* C33 as written: poll_tasks keeps the tasks that have not resolved and
\* drops the others; a service one of whose tasks resolved with the error
\* E, its deinit hook being synchronous, is Down(Failed(Own(E))) after the
\* step; and a service in Init whose
\* tasks are all gone and whose dependencies are Up is taken to Up by
\* update_async_state in the same tick.
C33_PolledTaskOutcome ==
    /\ [][ \A n \in Scheduled :
             PollStep(n) =>
                 /\ IsPrefix(SelectSeq(cache[n].tasks, LAMBDA t : t = "pending"),
                             cache'[n].tasks)
                 /\ ~Contains(cache'[n].tasks, "ok") /\ ~Contains(cache'[n].tasks, "err")
                 /\ (Contains(cache[n].tasks, "err") /\ hooks[n].on_deinit = "sync") =>
                        cache'[n].status = Down(Failed(TaskError(n))) ]_vars
    /\ [][ \A n \in Scheduled :
             ( /\ AsyncStateStep(n)
               /\ is_initializing(cache[n].status)
               /\ cache[n].tasks = << >>
               /\ DepsAt(n, Up) ) => is_up(cache'[n].status) ]_vars

\* ----------------------------------------------------------------------
\* Claims about failing a service
\* ----------------------------------------------------------------------
\* the last k entries queued for service n by the step
QueuedTail(n, k) ==
    SubSeq(cache'[n].event_queue, Len(cache'[n].event_queue) - k + 1,
           Len(cache'[n].event_queue))

\* C34 as written: a fail command carrying the error e applied to a service
\* that is Up, its deinit hook being synchronous, takes it to
\* Deinit(Failed(e)) and then to Down(Failed(e)), running its deinit hook
\* and then its down hook; when the deinit hook returns an error instead,
\* the forced failure takes the service to Down(Failed(..)) at once, the
\* down hook not running and the deinit hook not running again.
C34_FailPath ==
    [][ \A n \in Scheduled :
          ( /\ WatchStep(n)
            /\ pending[n] # << >>
            /\ applied'[n].command.cmd = "fail"
            /\ is_up(cache[n].status) ) =>
              LET e == applied'[n].command.error
              IN  /\ hooks[n].on_deinit = "sync" =>
                        /\ cache'[n].status = Down(Failed(e))
                        /\ Len(cache'[n].event_queue) >= 2
                        /\ QueuedTail(n, 2) =
                               << [ old_status |-> Up, new_status |-> Deinit(Failed(e)),
                                    id |-> n ],
                                  [ old_status |-> Deinit(Failed(e)),
                                    new_status |-> Down(Failed(e)), id |-> n ] >>
                        /\ HookCount(NewHooks, n, "on_deinit") = 1
                        /\ HookCount(NewHooks, n, "on_down") = 1
                  /\ hooks[n].on_deinit = "err" =>
                        /\ cache'[n].status = Down(Failed(HookError(n, "on_deinit")))
                        /\ HookCount(NewHooks, n, "on_deinit") = 1
                        /\ HookCount(NewHooks, n, "on_down") = 0 ]_vars

\* C35 as written: every node that has a record in the GraphDataCache before
\* a step of the lifecycle systems still has its record after the step.
C35_RecordsKept ==
    [][ \A n \in NodeIds : cache[n].kind # "Absent" => cache'[n].kind # "Absent" ]_vars

\* C36 as written: when a registration of a node that names itself among
\* its dependencies fails with DepLoop, the error value carries the name of
\* that node.
C36_LoopErrorNamesNode ==
    ( /\ lastReg.node # 0
      /\ lastReg.res.err = "DepLoop"
      /\ Contains(lastReg.deps, lastReg.node) ) =>
        lastReg.res.name = name_from_type(lastReg.node)

\* C37: whenever register_deps returns an order for a root (the sub-graph
\* reachable from the root is acyclic), the order starts with the root, so
\* the assert_eq! of ServiceData::register on the head of the order does
\* not fail.
C37_OrderStartsWithRoot ==
    ( lastReg.node # 0 /\ lastReg.res.ok ) =>
        /\ lastReg.res.order # << >>
        /\ Head(lastReg.res.order) = lastReg.node
        /\ lastReg.panic # "AssertEq"

\* a root registered with two dependencies on top of an earlier
\* registration, the order holding three nodes
C37_Witness ==
    /\ lastReg.node # 0
    /\ lastReg.res.ok
    /\ Len(lastReg.deps) = 2
    /\ Len(lastReg.res.order) = 3
    /\ nregs >= 2
    /\ Head(lastReg.res.order) = lastReg.node

\* ----------------------------------------------------------------------
\* Claims about the cycles reported
\* ----------------------------------------------------------------------
IsRotation(a, b) ==
    /\ Len(a) = Len(b)
    /\ \E k \in 0..(Len(a) - 1) :
           \A i \in 1..Len(a) : b[i] = a[((i - 1 + k) % Len(a)) + 1]

ClosedWalk(edges, c) ==
    /\ c # << >>
    /\ \A i \in 1..(Len(c) - 1) : << c[i], c[i + 1] >> \in edges
    /\ << c[Len(c)], c[1] >> \in edges

NoRepeat(c) == \A i, j \in 1..Len(c) : i # j => c[i] # c[j]

\* the cycles simple_cycles_in_component reports for each strongly
\* connected component of more than one node of the graph
ReportedPerComponent ==
    LET sccs == SelectSeq(iter_sccs(graph), LAMBDA c : Len(c) > 1)
    IN  [ i \in 1..Len(sccs) |-> simple_cycles_in_component(graph, sccs[i]) ]

\* C38: every cycle reported for a strongly connected component is a
\* closed walk of the graph with no repeated node, and no cycle is
\* reported twice, not even as a rotation; the cycles of the DepCycle error
\* of the last registration are these.
C38_ReportedCyclesElementary ==
    /\ \A k \in 1..Len(ReportedPerComponent) :
        LET cs == ReportedPerComponent[k]
        IN  /\ \A i \in 1..Len(cs) : ClosedWalk(graph.edges, cs[i]) /\ NoRepeat(cs[i])
            /\ \A i, j \in 1..Len(cs) : i # j => ~IsRotation(cs[i], cs[j])
    /\ lastReg.res.err = "DepCycle" =>
        /\ lastReg.res.cycles = Flatten(ReportedPerComponent)
        /\ \A i, j \in 1..Len(lastReg.res.cycles) :
               i # j => ~IsRotation(lastReg.res.cycles[i], lastReg.res.cycles[j])

\* a failed registration whose error reports two cycles through one node
C38_Witness ==
    /\ lastReg.res.err = "DepCycle"
    /\ Len(lastReg.res.cycles) >= 2
    /\ \E i, j \in 1..Len(lastReg.res.cycles) :
          /\ i # j
          /\ Range(lastReg.res.cycles[i]) \cap Range(lastReg.res.cycles[j]) # {}

\* ----------------------------------------------------------------------
\* Claims about the reason of a deinitialization
\* ----------------------------------------------------------------------
\* C39: no service ever has the status Deinit(Uninitialized), and no status
\* change to it is ever queued: deinit, which sets Deinit(reason) and then
\* hands the same reason to the cycle step of its dependencies, is only
\* called with SpunDown or Failed(_), so the unreachable!() branch of
\* cycle_service is not taken.
C39_NoDeinitUninitialized ==
    \A n \in NodeIds :
        /\ cache[n].status # Deinit(Uninitialized)
        /\ \A i \in 1..Len(cache[n].event_queue) :
               /\ cache[n].event_queue[i].new_status # Deinit(Uninitialized)
               /\ cache[n].event_queue[i].old_status # Deinit(Uninitialized)

\* a service and its dependency both taken through Deinit(Failed(e)) by
\* one fail command
C39_Witness ==
    \E n \in NodeIds, d \in NodeIds :
        /\ n # d
        /\ Contains(cache[n].deps, d)
        /\ \E i \in 1..Len(cache[n].event_queue) :
               /\ is_deinitializing(cache[n].event_queue[i].new_status)
               /\ cache[n].event_queue[i].new_status.reason.tag = "Failed"
               /\ \E j \in 1..Len(cache[d].event_queue) :
                      cache[d].event_queue[j].new_status = cache[n].event_queue[i].new_status

\* ----------------------------------------------------------------------
\* Claims about the Service<T, D, E> state machine
\* ----------------------------------------------------------------------
LastCommand(s) == s.history[Len(s.history)]

\* C40: an Init command applied to a service that is already initialized
\* is answered with AlreadyInitialized, a Disable command applied to a
\* service never initialized with Uninitialized; in both cases the failure
\* hook is the only hook run, no state change is triggered and the state,
\* the initialized flag and the data stay as they were.
C40_MisuseIsWarning ==
    [][ ( /\ serviceRes.present
          /\ serviceRes'.history # serviceRes.history
          /\ \/ LastCommand(serviceRes')[1] = "Init" /\ serviceRes.initialized
             \/ LastCommand(serviceRes')[1] = "Disable" /\ ~serviceRes.initialized ) =>
            /\ LastCommand(serviceRes')[2] =
                   IF LastCommand(serviceRes')[1] = "Init"
                   THEN "AlreadyInitialized" ELSE "Uninitialized"
            /\ serviceRes'.ran = << "on_failure" >>
            /\ serviceRes'.changes = << >>
            /\ serviceRes'.state = serviceRes.state
            /\ serviceRes'.initialized = serviceRes.initialized
            /\ serviceRes'.data = serviceRes.data ]_vars

\* a Disable before any initialization, then an Init that enables the
\* service, then a second Init
C40_Witness ==
    /\ serviceRes.history =
           << << "Disable", "Uninitialized" >>, << "Init", "None" >>,
              << "Init", "AlreadyInitialized" >> >>
    /\ serviceRes.state = ServiceState("Enabled")
    /\ serviceRes.ran = << "on_failure" >>

====
